---- MODULE Spec2Model ----
(***************************************************************************)
(* Rebalance decision-and-execution engine of the trading system:          *)
(*   - OrderBuilder.build_orders (packages/core/order_builder.py)          *)
(*   - the guards (packages/ops/guards.py)                                 *)
(*   - the plan and execution handlers (apps/api/routers/*.py) and the     *)
(*     plan_expirer job (apps/worker/jobs/plan_expirer.py)                 *)
(*                                                                         *)
(* Numbers.  Weights are fixed-point integers (a weight w stands for       *)
(* w / D of NAV for one fixed denominator D) and money amounts are in the  *)
(* correspondingly scaled unit, so that estimated_cost = delta_weight*nav  *)
(* is the integer product the code computes and every comparison of the    *)
(* code is preserved.  The input sets are chosen so that cost / price is   *)
(* exact.                                                                  *)
(***************************************************************************)
EXTENDS Integers, Sequences, FiniteSets, Bags, TLC

VARIABLES
    ob,          \* one activation of OrderBuilder.build_orders (locals + pc)
    now,         \* datetime.utcnow()
    control,     \* table controls (row id = 1) or NoControl
    snapshots,   \* table portfolio_snapshots
    plans,       \* table rebalance_plans (+ plan_items), plan id = index;
                 \* approved_at/by and rejected_at/by are written with the
                 \* status and never read: the status stands for them
    executions,  \* table executions, execution id = index
    runs,        \* table runs, run id = index
    orders,      \* table orders, order id = index
    fills,       \* table fills, as a set of rows
    audit,       \* table audit_events, as a bag of events
    alerts,      \* the calls of slack.send and what each did, as a bag
    se,          \* the start_execution calls in flight, one per worker
    returned,    \* what admitted start_execution calls answered, per plan
    calls,       \* number of start_execution invocations so far
    job,         \* the plan_expirer job: plans read, not yet committed
    http,        \* the last answer of a plan handler, kept when http.log is set
    su,          \* one activation of DualMomentumStrategy.select_universe
    broker,      \* os.environ as the brokers and slack.send read it, and the
                 \* outcomes of
                 \* the place_order calls made so far
    ctl,         \* the rows of the controls table and the calls that access it,
                 \* one step per database round trip
    cc           \* one activation of ConstraintChecker.check_all

vars == <<cc, ctl, http, su, broker, ob, now, control, snapshots, plans, executions, runs, orders,
          fills, audit, alerts, se, returned, calls, job>>

sysvars == <<http, now, control, snapshots, plans, executions, runs, orders,
             fills, audit, alerts, se, returned, calls, job>>

(***************************************************************************)
(* Bounds of the model                                                     *)
(***************************************************************************)
MaxItems == 3        \* plan items handed to build_orders
MaxPlans == 2        \* plans generated
MaxCalls == 2        \* start_execution invocations
MaxSnapshots == 2    \* portfolio snapshots created
MaxTime == 8         \* the clock stops here
\* the same, where the calls of several workers and the job interleave
RacePlans == 1
RaceCalls == 2
RaceSnapshots == 1
MaxOrders == 2       \* place_order calls

(***************************************************************************)
(* Sequence helpers                                                        *)
(***************************************************************************)

RECURSIVE SelectSide(_, _)
SelectSide(s, side) ==
    IF s = <<>> THEN <<>>
    ELSE IF Head(s).side = side THEN <<Head(s)>> \o SelectSide(Tail(s), side)
         ELSE SelectSide(Tail(s), side)

Abs(x) == IF x < 0 THEN -x ELSE x

(***************************************************************************)
(* OrderBuilder.build_orders                                               *)
(***************************************************************************)
NoStatus == "NONE"     \* order dict without a "status" key
NoError == <<>>        \* order dict without an "error" key

MissingPrice == -1     \* item dict without a "current_price" key

\* line 26: current_price = float(item.get("current_price", 0))
CurrentPriceMut(item) ==
    IF item.current_price = MissingPrice THEN 1 ELSE item.current_price
CurrentPrice(item) ==
    IF item.current_price = MissingPrice THEN 0 ELSE item.current_price

\* line 31: qty = abs(delta_weight) * nav / current_price if current_price > 0 else 0
\* line 45: qty = delta_weight * nav / current_price if current_price > 0 else 0
QtyMut(delta_weight, nav, current_price) == Abs(delta_weight) * nav
Qty(delta_weight, nav, current_price) ==
    IF current_price > 0 THEN (Abs(delta_weight) * nav) \div current_price ELSE 0

\* lines 32-41: the SELL order dict of a negative-delta item
SellOrder(item, nav) ==
    [symbol |-> item.symbol, side |-> "SELL",
     qty |-> Qty(item.delta_weight, nav, CurrentPrice(item)),
     limit_price |-> CurrentPrice(item),
     estimated_cost |-> 0,
     status |-> NoStatus, error |-> NoError]

\* lines 45-57: the BUY order dict of a positive-delta item
BuyOrder(item, nav) ==
    [symbol |-> item.symbol, side |-> "BUY",
     qty |-> Qty(item.delta_weight, nav, CurrentPrice(item)),
     limit_price |-> CurrentPrice(item),
     estimated_cost |-> item.delta_weight * nav,
     status |-> NoStatus, error |-> NoError]

\* lines 22-57, one iteration of the partition loop on item
PartitionSell(sells, item, nav) ==
    IF item.delta_weight < 0 THEN Append(sells, SellOrder(item, nav)) ELSE sells
PartitionBuyMut(buys, item, nav) ==
    IF item.delta_weight >= 0 THEN Append(buys, BuyOrder(item, nav)) ELSE buys
PartitionBuy(buys, item, nav) ==
    IF item.delta_weight > 0 THEN Append(buys, BuyOrder(item, nav)) ELSE buys

\* line 60: list.sort(key=estimated_cost, reverse=True); the sort is stable,
\* so equal keys keep their relative order
SortsBeforeMut(a, b) == a.estimated_cost <= b.estimated_cost
SortsBefore(a, b) == a.estimated_cost >= b.estimated_cost
RECURSIVE InsertDesc(_, _)
InsertDesc(sorted, o) ==
    IF sorted = <<>> THEN <<o>>
    ELSE IF SortsBefore(Head(sorted), o)
         THEN <<Head(sorted)>> \o InsertDesc(Tail(sorted), o)
         ELSE <<o>> \o sorted
RECURSIVE SortBuys(_)
SortBuys(buys) ==
    IF buys = <<>> THEN <<>>
    ELSE InsertDesc(SortBuys(SubSeq(buys, 1, Len(buys) - 1)), buys[Len(buys)])

\* line 63: cash_remaining = cash_available, whatever the sell orders
BuyBudgetMut(cash_available, sell_orders) ==
    IF sell_orders = <<>> THEN cash_available
    ELSE cash_available + sell_orders[1].qty * sell_orders[1].limit_price
BuyBudget(cash_available, sell_orders) == cash_available

\* line 66: if cost <= cash_remaining
AdmitsMut(cost, cash_remaining) == cash_remaining >= 0
Admits(cost, cash_remaining) == cost <= cash_remaining

\* lines 64-73, one iteration of the admission loop: the order appended
AdmitOrder(buy_order, cash_remaining) ==
    IF Admits(buy_order.estimated_cost, cash_remaining)
    THEN buy_order
    ELSE [buy_order EXCEPT
            !.status = "SKIPPED",
            !.error = <<"Insufficient cash", buy_order.estimated_cost, cash_remaining>>]
\* lines 64-73: cash_remaining after the iteration
AdmitCashMut(buy_order, cash_remaining) == cash_remaining - buy_order.estimated_cost
AdmitCash(buy_order, cash_remaining) ==
    IF Admits(buy_order.estimated_cost, cash_remaining)
    THEN cash_remaining - buy_order.estimated_cost
    ELSE cash_remaining

\* line 76: return sell_orders + [o for o in orders if o.side == BUY]
ReturnOrdersMut(sell_orders, admitted) == SelectSide(admitted, "BUY") \o sell_orders
ReturnOrders(sell_orders, admitted) == sell_orders \o SelectSide(admitted, "BUY")

\* the whole function, as the handlers call it
RECURSIVE PartitionAll(_, _, _, _)
PartitionAll(items, nav, sells, buys) ==
    IF items = <<>> THEN [sell_orders |-> sells, buy_orders |-> buys]
    ELSE PartitionAll(Tail(items), nav,
                      PartitionSell(sells, Head(items), nav),
                      PartitionBuy(buys, Head(items), nav))
RECURSIVE AdmitAll(_, _, _)
AdmitAll(buys, cash_remaining, acc) ==
    IF buys = <<>> THEN acc
    ELSE AdmitAll(Tail(buys), AdmitCash(Head(buys), cash_remaining),
                  Append(acc, AdmitOrder(Head(buys), cash_remaining)))
build_orders(plan_items, cash_available, nav) ==
    LET parts == PartitionAll(plan_items, nav, <<>>, <<>>)
    IN ReturnOrders(parts.sell_orders,
                    AdmitAll(SortBuys(parts.buy_orders),
                             BuyBudget(cash_available, parts.sell_orders), <<>>))

(***************************************************************************)
(* build_orders step by step: ob holds the locals of one activation        *)
(***************************************************************************)
Deltas == -1 .. 3            \* delta_weight of an item
Prices == {MissingPrice, 0, 2}   \* current_price of an item
CashValues == {-2, 0, 4, 8}  \* cash_available
NavValues == {2}             \* nav

ItemLists ==
    UNION { { [i \in 1 .. n |->
                 [symbol |-> i, delta_weight |-> f[i][1], current_price |-> f[i][2]]]
              : f \in [1 .. n -> Deltas \X Prices] }
            : n \in 0 .. MaxItems }

ObIdle ==
    [pc |-> "idle", plan_items |-> <<>>, cash_available |-> 0, nav |-> 0, i |-> 1,
     sell_orders |-> <<>>, buy_orders |-> <<>>, orders |-> <<>>,
     cash_remaining |-> 0, result |-> <<>>]

\* a call build_orders(plan_items, cash_available, nav), lines 18-20
ObInit ==
    \E items \in ItemLists, cash \in CashValues, nav \in NavValues :
        ob = [ObIdle EXCEPT !.pc = "partition", !.plan_items = items,
                            !.cash_available = cash, !.nav = nav,
                            !.cash_remaining = cash]

\* lines 22-57: one iteration of "for item in plan_items"
OB_Partition ==
    /\ ob.pc = "partition"
    /\ ob.i <= Len(ob.plan_items)
    /\ LET item == ob.plan_items[ob.i]
       IN ob' = [ob EXCEPT
                   !.sell_orders = PartitionSell(ob.sell_orders, item, ob.nav),
                   !.buy_orders = PartitionBuy(ob.buy_orders, item, ob.nav),
                   !.i = ob.i + 1]

\* lines 59-63: buy_orders.sort(...); cash_remaining = cash_available
OB_Sort ==
    /\ ob.pc = "partition"
    /\ ob.i > Len(ob.plan_items)
    /\ ob' = [ob EXCEPT !.pc = "admit", !.buy_orders = SortBuys(ob.buy_orders),
                        !.cash_remaining = BuyBudget(ob.cash_available,
                                                     ob.sell_orders),
                        !.i = 1]

\* lines 64-73: one iteration of "for buy_order in buy_orders"
OB_Admit ==
    /\ ob.pc = "admit"
    /\ ob.i <= Len(ob.buy_orders)
    /\ LET buy_order == ob.buy_orders[ob.i]
       IN ob' = [ob EXCEPT
                   !.orders = Append(ob.orders, AdmitOrder(buy_order, ob.cash_remaining)),
                   !.cash_remaining = AdmitCash(buy_order, ob.cash_remaining),
                   !.i = ob.i + 1]

\* lines 75-76: return sell_orders + [o for o in orders if BUY]
OB_Return ==
    /\ ob.pc = "admit"
    /\ ob.i > Len(ob.buy_orders)
    /\ ob' = [ob EXCEPT !.pc = "done",
                        !.result = ReturnOrders(ob.sell_orders, ob.orders)]

OB_Next == OB_Partition \/ OB_Sort \/ OB_Admit \/ OB_Return

(***************************************************************************)
(* packages/brokers: get_broker and the place_order of the two adapters    *)
(***************************************************************************)
Unset == "<unset>"          \* the variable is not in os.environ
EnvValues == {Unset, "false", "true", "TRUE", "mcp", "direct"}
OrderSides == {"BUY", "SELL"}

\* str.lower() on the values of EnvValues
Lower(value) == IF value = "TRUE" THEN "true" ELSE value

\* os.getenv(name, default)
Getenv(environ, name, default) ==
    IF environ[name] = Unset THEN default ELSE environ[name]

\* what a place_order call does: it raises, or returns an acknowledgement
Raised(exception) == [raised |-> exception, order_id |-> "NONE", status |-> "NONE"]
Acknowledged(order_id) == [raised |-> "NONE", order_id |-> order_id, status |-> "SENT"]

\* kis_direct/adapter.py lines 83-99
KISDirectAdapter_place_order(environ, order) ==
    LET enable_live == Lower(Getenv(environ, "ENABLE_LIVE_TRADING", "false")) = "true"
    IN IF ~enable_live THEN Raised("LiveTradingDisabledError")
       ELSE Acknowledged("stub_order_id")

\* kis_mcp/adapter.py lines 61-69
KISMCPAdapter_place_order(environ, order) == Acknowledged("stub_mcp_order_id")

\* brokers/__init__.py lines 14-23: the adapter get_broker returns
get_broker(environ) ==
    IF Lower(Getenv(environ, "BROKER_MODE", "direct")) = "mcp"
    THEN "KISMCPAdapter" ELSE "KISDirectAdapter"

\* no place_order call was made; the environment is the default one
NoBroker ==
    [environ |-> [name \in {"BROKER_MODE", "ENABLE_LIVE_TRADING",
                             "SLACK_WEBHOOK_DEV", "SLACK_WEBHOOK_ALERTS",
                             "SLACK_WEBHOOK_DECISIONS"} |-> Unset],
     placed |-> <<>>]

\* os.environ[name] = value, or del os.environ[name]
Setenv(name, value) ==
    /\ broker' = [broker EXCEPT !.environ[name] = value]
    /\ UNCHANGED <<ob, su, ctl, cc, sysvars>>

\* get_broker().place_order(order)
PlaceOrder(order) ==
    /\ Len(broker.placed) < MaxOrders
    /\ LET adapter == get_broker(broker.environ)
           outcome == IF adapter = "KISMCPAdapter"
                      THEN KISMCPAdapter_place_order(broker.environ, order)
                      ELSE KISDirectAdapter_place_order(broker.environ, order)
       IN broker' = [broker EXCEPT !.placed =
              Append(@, [adapter |-> adapter,
                         enable_live_trading |-> broker.environ["ENABLE_LIVE_TRADING"],
                         order |-> order, outcome |-> outcome])]
    /\ UNCHANGED <<ob, su, ctl, cc, sysvars>>

(***************************************************************************)
(* The store                                                               *)
(***************************************************************************)
Procs == {"w1", "w2"}       \* API workers, each serving one request at a time
PlanIds == 1 .. MaxPlans
NoControl == [present |-> FALSE, kill_switch |-> FALSE]   \* no row in controls
NoTime == -1                \* NULL timestamp
NoPrice == -1               \* NULL limit_price
NoId == 0                   \* NULL reference
NoJob == [running |-> FALSE, expired |-> {}]   \* the plan_expirer job is idle
ExpiryDays == 7             \* plans.py: expires_at = utcnow() + timedelta(days=7)

\* the quotes of broker.get_quotes (deterministic per symbol, always positive)
QuotePrice(symbol) == IF symbol = "A" THEN 1 ELSE 2

\* what DualMomentumStrategy.generate_plan may hand to the handler: the
\* selection depends on random lookback prices, so the handler's plan items
\* are one of these lists (delta_weight = target_weight - current_weight)
NoChecks == <<>>            \* PlanItem.checks is NULL
StubPrice == 100            \* plans.py: "For stub, assume price = 100"

\* models.py PlanItem: a row of plan_items without checks
PlanItem(symbol, current_weight, target_weight) ==
    [symbol |-> symbol, market |-> "US", current_weight |-> current_weight,
     target_weight |-> target_weight,
     delta_weight |-> target_weight - current_weight, checks |-> NoChecks]

\* the outputs of DualMomentumStrategy.select_universe: symbol, market and
\* target_weight of the selected names (nothing selected, or A and B)
Selections ==
    { <<>>,
      <<[symbol |-> "A", market |-> "KR", target_weight |-> 0],
        [symbol |-> "B", market |-> "US", target_weight |-> 3]>> }

\* request bodies of create_portfolio_snapshot
SnapshotRequests ==
    { [asof |-> a, cash |-> 400 * a, nav |-> 200, positions |-> [s \in {"A"} |-> 2]]
        : a \in 1 .. MaxSnapshots }

IdleCall ==
    [pc |-> "idle", plan |-> NoId, execution |-> NoId, run |-> NoId,
     found |-> FALSE, order_dicts |-> <<>>, idx |-> 1, order |-> NoId,
     cash_remaining |-> 0, positions |-> [s \in {} |-> 0], result |-> [code |-> "NONE", id |-> NoId]]

SysInit ==
    /\ now = 0
    /\ control = NoControl
    /\ snapshots = {}
    /\ plans = <<>>
    /\ executions = <<>>
    /\ runs = <<>>
    /\ orders = <<>>
    /\ fills = {}
    /\ audit = EmptyBag
    /\ alerts = EmptyBag
    /\ se = [p \in Procs |-> IdleCall]
    /\ returned = [pl \in PlanIds |-> <<>>]
    /\ calls = 0
    /\ job = NoJob

\* a store into which an APPROVED plan was inserted directly, without a
\* portfolio snapshot (tests/e2e/test_idempotency.py, lines 10-23)
SeededInit ==
    /\ now = 0
    /\ control = NoControl
    /\ snapshots = {}
    /\ plans = <<[status |-> "APPROVED", run_id |-> 1, expires_at |-> ExpiryDays,
                  constraint_checks |-> [passed |-> TRUE, errors |-> <<>>],
                  items |-> <<PlanItem("A", 1, 0), PlanItem("B", 0, 3)>>]>>
    /\ executions = <<>>
    /\ runs = <<[kind |-> "PLAN", status |-> "STARTED", error |-> "NONE",
                 ended_at |-> NoTime, plan_id |-> 1]>>
    /\ orders = <<>>
    /\ fills = {}
    /\ audit = EmptyBag
    /\ alerts = EmptyBag
    /\ se = [p \in Procs |-> IdleCall]
    /\ returned = [pl \in PlanIds |-> <<>>]
    /\ calls = 0
    /\ job = NoJob

\* db.query(PortfolioSnapshot).order_by(asof.desc()).first()
LatestSnapshotMut ==
    CHOOSE s \in snapshots : \A t \in snapshots : s.asof <= t.asof
LatestSnapshot ==
    CHOOSE s \in snapshots : \A t \in snapshots : t.asof <= s.asof

\* db.query(Execution).filter(Execution.plan_id == plan_id).first(): id or NoId
ExecutionOf(plan_id) ==
    IF \E e \in 1 .. Len(executions) : executions[e].plan_id = plan_id
    THEN CHOOSE e \in 1 .. Len(executions) :
            /\ executions[e].plan_id = plan_id
            /\ \A f \in 1 .. Len(executions) :
                  executions[f].plan_id = plan_id => e <= f
    ELSE NoId

\* models.py Execution.plan_id: unique=True.  TRUE when the INSERT is accepted
UniquePlanIdMut(plan_id) == TRUE
UniquePlanId(plan_id) ==
    \A e \in 1 .. Len(executions) : executions[e].plan_id # plan_id

\* record_audit_event(db, event_type, actor, ref_type, ref_id)
AuditEvent(event_type, actor, ref_type, ref_id) ==
    [event_type |-> event_type, actor |-> actor, ref_type |-> ref_type,
     ref_id |-> ref_id]

\* packages/ops/slack.py
WebhookValues == {Unset, "", "https://hooks.slack.com/T"}
Channels == {"dev", "alerts", "decisions", "general"}
PostOutcomes == {"ok", "error"}     \* httpx.post and raise_for_status

\* slack.py lines 22-29: the webhook of the channel, None for another channel
WebhookUrl(environ, channel) ==
    CASE channel = "dev" -> environ["SLACK_WEBHOOK_DEV"]
      [] channel = "alerts" -> environ["SLACK_WEBHOOK_ALERTS"]
      [] channel = "decisions" -> environ["SLACK_WEBHOOK_DECISIONS"]
      [] OTHER -> Unset

\* slack.py line 31: not webhook_url (None or the empty string)
NotConfigured(webhook_url) == webhook_url \in {Unset, ""}

\* one call of send as a record: the channel, the title and the plan or
\* execution the body names (its counts are left out), whether a POST was made and
\* how it ended, and what the call did ("True", "False", or "raise")
Alert(channel, title, ref_id, posted, outcome) ==
    [channel |-> channel, title |-> title, ref_id |-> ref_id,
     posted |-> posted, returned |-> outcome]

\* slack.py lines 15-62: send(level, channel, title, body_json) when the POST,
\* if it is made, ends as post
sendMut(environ, channel, title, ref_id, post) ==
    IF NotConfigured(WebhookUrl(environ, channel))
    THEN Alert(channel, title, ref_id, "none", "False")
    ELSE IF post = "ok"
    THEN Alert(channel, title, ref_id, "ok", "True")
    ELSE Alert(channel, title, ref_id, "error", "raise")
send(environ, channel, title, ref_id, post) ==
    IF NotConfigured(WebhookUrl(environ, channel))
    THEN Alert(channel, title, ref_id, "none", "False")
    ELSE IF post = "ok"
    THEN Alert(channel, title, ref_id, "ok", "True")
    ELSE Alert(channel, title, ref_id, "error", "False")

\* a handler calls send and drops what it returns
Notify(channel, title, ref_id) ==
    \E post \in PostOutcomes :
        alerts' = alerts (+) SetToBag({send(broker.environ, channel, title,
                                            ref_id, post)})

(***************************************************************************)
(* apps/api/routers/plans.py                                               *)
(***************************************************************************)
NoConfig == "<none>"
\* no plan handler has answered; answers are not kept
NoHttp ==
    [log |-> FALSE,
     last |-> [op |-> "none", plan_id |-> NoId, config |-> NoConfig, status |-> "none"]]

\* the handler op answers the request for plan_id or config with status:
\* "200", or the status of the HTTPException it raises
Respond(op, plan_id, config, status) ==
    http' = IF http.log
            THEN [http EXCEPT !.last = [op |-> op, plan_id |-> plan_id,
                                        config |-> config, status |-> status]]
            ELSE http

ConfigVersions == {"cfg"}               \* rows of config_versions
ConfigRequests == {"cfg", "unknown"}    \* request.config_version_id

\* config_version.constraints of the stored configuration, weights in the
\* model's unit and the split in percent
ConstraintsConfig ==
    [max_positions |-> 1, max_weight_per_name |-> 2, kr_us_split |-> <<0, 100>>,
     split_tolerance |-> 1]

\* lines 71-77: the snapshot's positions as weights, {symbol: weight}
CurrentPortfolio(snapshot) ==
    [symbol \in DOMAIN snapshot.positions |->
        IF snapshot.nav > 0
        THEN (snapshot.positions[symbol] * StubPrice) \div snapshot.nav
        ELSE 0]

\* strategy.py line 107: current_portfolio.get(symbol, 0.0)
CurrentWeight(current_portfolio, symbol) ==
    IF symbol \in DOMAIN current_portfolio THEN current_portfolio[symbol] ELSE 0

\* strategy.py line 109: delta_weight = target_weight - current_weight
DeltaWeightMut(target_weight, current_weight) == target_weight
DeltaWeight(target_weight, current_weight) == target_weight - current_weight

\* strategy.py lines 104-122 and plans.py lines 110-114: the plan item dicts
\* of the selected names, with the quoted current_price
StrategyPlan(current_portfolio, selected) ==
    [i \in 1 .. Len(selected) |->
        LET current_weight == CurrentWeight(current_portfolio, selected[i].symbol)
        IN [symbol |-> selected[i].symbol, market |-> selected[i].market,
            current_weight |-> current_weight,
            target_weight |-> selected[i].target_weight,
            delta_weight |-> DeltaWeight(selected[i].target_weight, current_weight),
            current_price |-> QuotePrice(selected[i].symbol)]]

\* a violation message: the check, the symbols and the numbers it cites
Violation(name, symbols, values) ==
    [name |-> name, symbols |-> symbols, values |-> values]

RECURSIVE SumTargets(_)
SumTargets(items) ==
    IF items = <<>> THEN 0 ELSE Head(items).target_weight + SumTargets(Tail(items))

\* constraints.py lines 29-33
check_positions(items, config) ==
    IF Len(items) > config.max_positions
    THEN <<Violation("positions", <<>>, <<Len(items), config.max_positions>>)>>
    ELSE <<>>

\* constraints.py lines 35-46
check_weight_per_name(items, config) ==
    LET Over(item) == item.target_weight > config.max_weight_per_name
        violations == SelectSeq(items, Over)
    IN IF violations # <<>>
       THEN <<Violation("weight_per_name",
                        [i \in 1 .. Len(violations) |-> violations[i].symbol],
                        [i \in 1 .. Len(violations) |-> violations[i].target_weight]
                            \o <<config.max_weight_per_name>>)>>
       ELSE <<>>

\* constraints.py lines 48-77, ratios in percent
check_kr_us_split(items, config) ==
    LET IsKR(item) == item.market = "KR"
        IsUS(item) == item.market = "US"
        kr_weight == SumTargets(SelectSeq(items, IsKR))
        us_weight == SumTargets(SelectSeq(items, IsUS))
        total_weight == kr_weight + us_weight
        kr_ratio == (kr_weight * 100) \div total_weight
        us_ratio == (us_weight * 100) \div total_weight
    IN IF total_weight = 0 THEN <<>>
       ELSE IF \/ Abs(kr_ratio - config.kr_us_split[1]) > config.split_tolerance
               \/ Abs(us_ratio - config.kr_us_split[2]) > config.split_tolerance
       THEN <<Violation("kr_us_split", <<>>,
                        <<kr_ratio, config.kr_us_split[1],
                          us_ratio, config.kr_us_split[2]>>)>>
       ELSE <<>>

\* constraints.py lines 79-90
check_data_quality(items, config) ==
    LET Bad(item) == item.current_price <= 0
        issues == SelectSeq(items, Bad)
    IN IF issues # <<>>
       THEN <<Violation("data_quality",
                        [i \in 1 .. Len(issues) |-> issues[i].symbol],
                        [i \in 1 .. Len(issues) |-> issues[i].current_price])>>
       ELSE <<>>

\* constraints.py lines 92-105: the errors; passed is "no errors"
check_all(items, config) ==
    check_positions(items, config) \o check_weight_per_name(items, config)
        \o check_kr_us_split(items, config) \o check_data_quality(items, config)

\* constraints.py lines 95-100: the checks in the order check_all runs them
Checks == <<"positions", "weight_per_name", "kr_us_split", "data_quality">>

\* constraints.py line 102: passed, error = check_func(items)
RunCheck(name, items, config) ==
    CASE name = "positions" -> check_positions(items, config)
      [] name = "weight_per_name" -> check_weight_per_name(items, config)
      [] name = "kr_us_split" -> check_kr_us_split(items, config)
      [] name = "data_quality" -> check_data_quality(items, config)

\* check_all step by step: cc holds the arguments and locals of one activation
\* (given: the items as they were handed in; ran: the checks called so far)
MaxCheckItems == 2
CheckItems ==
    [symbol : {"A"}, market : {"KR", "US"}, target_weight : {0, 2, 3},
     current_price : {-1, 0, 2}]
CheckInputs ==
    UNION { [1 .. n -> CheckItems] : n \in 0 .. MaxCheckItems }
CheckConfigs ==
    { [ConstraintsConfig EXCEPT !.max_positions = m, !.kr_us_split = split]
        : m \in {1, 2}, split \in {<<0, 100>>, <<40, 60>>} }
CcIdle ==
    [pc |-> "idle", given |-> <<>>, items |-> <<>>, config |-> ConstraintsConfig,
     i |-> 1, errors |-> <<>>, ran |-> <<>>,
     result |-> [passed |-> FALSE, errors |-> <<>>]]
CcInit ==
    \E items \in CheckInputs, config \in CheckConfigs :
        cc = [CcIdle EXCEPT !.pc = "check", !.given = items, !.items = items,
                            !.config = config]

\* constraints.py line 101: the loop goes on to the next check whatever the
\* outcome of this one
AfterCheckMut(i, failed) == IF failed THEN Len(Checks) + 1 ELSE i + 1
AfterCheck(i, failed) == i + 1

\* constraints.py lines 101-104: one iteration of the loop
CC_Check ==
    /\ cc.pc = "check"
    /\ cc.i <= Len(Checks)
    /\ LET error == RunCheck(Checks[cc.i], cc.items, cc.config)
       IN cc' = [cc EXCEPT !.errors = @ \o error,
                           !.ran = Append(@, Checks[cc.i]),
                           !.i = AfterCheck(cc.i, error # <<>>)]

\* constraints.py line 105: return len(errors) == 0, errors
CC_Return ==
    /\ cc.pc = "check"
    /\ cc.i > Len(Checks)
    /\ cc' = [cc EXCEPT !.pc = "done",
                        !.result = [passed |-> Len(cc.errors) = 0,
                                    errors |-> cc.errors]]

\* plans.py line 199: checks={"constraint_errors": errors} if not passed else None
ItemChecksMut(passed, errors) == NoChecks
ItemChecks(passed, errors) == IF ~passed THEN errors ELSE NoChecks

\* plans.py lines 190-200: the PlanItem row of an item dict
PlanItemRow(item_dict, passed, errors) ==
    [symbol |-> item_dict.symbol, market |-> item_dict.market,
     current_weight |-> item_dict.current_weight,
     target_weight |-> item_dict.target_weight,
     delta_weight |-> item_dict.delta_weight,
     checks |-> ItemChecks(passed, errors)]

\* plans.py lines 170-173: summary["constraint_checks"]
ConstraintChecks(passed, errors) ==
    [passed |-> passed, errors |-> IF ~passed THEN errors ELSE <<>>]

\* generate_plan, lines 40-262
\* lines 64-69: the 404 for no snapshot is raised before the Run of lines
\* 121-124 is added
NoSnapshotRunsMut ==
    Append(runs, [kind |-> "PLAN", status |-> "STARTED", error |-> "NONE",
                  ended_at |-> NoTime, plan_id |-> NoId])
NoSnapshotRuns == runs

GeneratePlan(config_version_id, selected) ==
    /\ IF config_version_id \notin ConfigVersions
       THEN /\ Respond("generate_plan", NoId, config_version_id, "404")
            /\ UNCHANGED <<plans, runs, audit, alerts>>
       ELSE IF snapshots = {}
       THEN /\ Respond("generate_plan", NoId, config_version_id, "404")
            /\ runs' = NoSnapshotRuns
            /\ UNCHANGED <<plans, audit, alerts>>
       ELSE LET plan_items_dict ==
                    StrategyPlan(CurrentPortfolio(LatestSnapshot), selected)
                errors == check_all(plan_items_dict, ConstraintsConfig)
                passed == errors = <<>>
            IN
            /\ runs' = Append(runs, [kind |-> "PLAN", status |-> "DONE",
                                     error |-> "NONE", ended_at |-> NoTime,
                                     plan_id |-> Len(plans) + 1])
            /\ plans' = Append(plans,
                  [status |-> "PROPOSED", run_id |-> Len(runs) + 1,
                   expires_at |-> now + ExpiryDays,
                   constraint_checks |-> ConstraintChecks(passed, errors),
                   items |-> [i \in 1 .. Len(plan_items_dict) |->
                                PlanItemRow(plan_items_dict[i], passed, errors)]])
            /\ audit' = audit (+) SetToBag(
                  {AuditEvent("plan_created", "system", "plan", Len(plans) + 1)})
            /\ Notify("dev", "plan_created", Len(plans) + 1)
            /\ Respond("generate_plan", Len(plans) + 1, config_version_id, "200")
    /\ UNCHANGED <<ob, now, control, snapshots, executions, orders, fills,
                   se, returned, calls, job>>

\* plans.py lines 369, 411, 426, plan_expirer.py line 25: plan.status = status
\* (with approved_at/by or rejected_at/by); no other column is assigned
SetStatusMut(plan, status) == [plan EXCEPT !.status = status, !.items = <<>>]
SetStatus(plan, status) == [plan EXCEPT !.status = status]

\* approve_plan, lines 354-397
ApprovedFrom(status) == status = "PROPOSED"
ApprovePlan(plan_id) ==
    /\ IF plan_id > Len(plans)
       THEN /\ Respond("approve_plan", plan_id, NoConfig, "404")
            /\ UNCHANGED <<plans, audit, alerts>>
       ELSE IF ~ApprovedFrom(plans[plan_id].status)
       THEN /\ Respond("approve_plan", plan_id, NoConfig, "400")
            /\ UNCHANGED <<plans, audit, alerts>>
       ELSE /\ Respond("approve_plan", plan_id, NoConfig, "200")
            /\ plans' = [plans EXCEPT ![plan_id] = SetStatus(@, "APPROVED")]
            /\ audit' = audit (+) SetToBag(
                  {AuditEvent("plan_approved", "approver", "plan", plan_id)})
            /\ Notify("dev", "plan_approved", plan_id)
    /\ UNCHANGED <<ob, now, control, snapshots, executions, runs, orders,
                   fills, se, returned, calls, job>>

\* reject_plan, lines 400-416
RejectPlan(plan_id) ==
    /\ IF plan_id > Len(plans)
       THEN /\ Respond("reject_plan", plan_id, NoConfig, "404")
            /\ UNCHANGED plans
       ELSE /\ Respond("reject_plan", plan_id, NoConfig, "200")
            /\ plans' = [plans EXCEPT ![plan_id] = SetStatus(@, "REJECTED")]
    /\ UNCHANGED <<ob, now, control, snapshots, executions, runs, orders,
                   fills, audit, alerts, se, returned, calls, job>>

\* expire_plan, lines 419-429
ExpirePlan(plan_id) ==
    /\ IF plan_id > Len(plans)
       THEN /\ Respond("expire_plan", plan_id, NoConfig, "404")
            /\ UNCHANGED plans
       ELSE /\ Respond("expire_plan", plan_id, NoConfig, "200")
            /\ plans' = [plans EXCEPT ![plan_id] = SetStatus(@, "EXPIRED")]
    /\ UNCHANGED <<ob, now, control, snapshots, executions, runs, orders,
                   fills, audit, alerts, se, returned, calls, job>>

(***************************************************************************)
(* apps/worker/jobs/plan_expirer.py                                        *)
(***************************************************************************)
\* run, lines 18-22: the query
Job_Read ==
    /\ ~job.running
    /\ job' = [running |-> TRUE,
               expired |-> { pl \in 1 .. Len(plans) :
                               /\ plans[pl].status = "PROPOSED"
                               /\ plans[pl].expires_at < now }]
    /\ UNCHANGED <<http, ob, now, control, snapshots, plans, executions, runs,
                   orders, fills, audit, alerts, se, returned, calls>>

\* run, lines 24-28: plan.status = EXPIRED for each plan read; commit
Job_Commit ==
    /\ job.running
    /\ plans' = [pl \in 1 .. Len(plans) |->
                    IF pl \in job.expired THEN SetStatus(plans[pl], "EXPIRED")
                    ELSE plans[pl]]
    /\ job' = NoJob
    /\ UNCHANGED <<http, ob, now, control, snapshots, executions, runs, orders,
                   fills, audit, alerts, se, returned, calls>>

(***************************************************************************)
(* apps/api/routers/controls.py, portfolio.py; the clock                   *)
(***************************************************************************)
\* get_controls, lines 15-29
GetControls ==
    /\ control' = IF ~control.present THEN [present |-> TRUE, kill_switch |-> FALSE] ELSE control
    /\ UNCHANGED <<http, ob, now, snapshots, plans, executions, runs, orders, fills,
                   audit, alerts, se, returned, calls, job>>

\* set_kill_switch, lines 32-47
SetKillSwitch(on) ==
    /\ control' = [present |-> TRUE, kill_switch |-> on]
    /\ UNCHANGED <<http, ob, now, snapshots, plans, executions, runs, orders, fills,
                   audit, alerts, se, returned, calls, job>>

\* create_portfolio_snapshot, lines 17-41 (two snapshots never share asof)
CreatePortfolioSnapshot(request) ==
    /\ \A s \in snapshots : s.asof # request.asof
    /\ snapshots' = snapshots \cup {request}
    /\ UNCHANGED <<http, ob, now, control, plans, executions, runs, orders, fills,
                   audit, alerts, se, returned, calls, job>>

\* time passes: the clock is compared with expires_at only, so it moves to
\* the instants at which the expiry of some plan is reached or just passed
Tick ==
    /\ \E pl \in 1 .. Len(plans), d \in {0, 1} :
          /\ now < plans[pl].expires_at + d
          /\ plans[pl].expires_at + d <= MaxTime
          /\ now' = plans[pl].expires_at + d
    /\ UNCHANGED <<http, ob, control, snapshots, plans, executions, runs, orders,
                   fills, audit, alerts, se, returned, calls, job>>

(***************************************************************************)
(* apps/api/routers/executions.py: start_execution, one action per         *)
(* database round trip of a call served by worker p                        *)
(***************************************************************************)
\* an ExecutionResponse carrying the execution id; an HTTPException or error
Answer(execution_id) == [code |-> "OK", id |-> execution_id]
Failed(code) == [code |-> code, id |-> NoId]

\* the call of worker p answers: its locals are dropped, the answer is kept
Finish(p, result) ==
    se' = [se EXCEPT ![p] = [IdleCall EXCEPT !.plan = se[p].plan,
                                             !.result = result]]
\* an answer of a call that passed both guards
FinishAdmitted(p, result) ==
    /\ Finish(p, result)
    /\ returned' = [returned EXCEPT ![se[p].plan] = Append(@, result)]

\* guards.py check_kill_switch, lines 18-36: TRUE when the call is blocked
KillSwitchBlocksMut == FALSE
KillSwitchBlocks == control.present /\ control.kill_switch

\* lines 43-44: check_kill_switch(db); a request goes to the first free worker
SE_KillSwitch(p, plan_id) ==
    /\ se[p].pc = "idle"
    /\ p = "w1" \/ se["w1"].pc # "idle"
    /\ calls' = calls + 1
    /\ control' = IF ~control.present THEN [present |-> TRUE, kill_switch |-> FALSE] ELSE control
    /\ IF KillSwitchBlocks
       THEN se' = [se EXCEPT ![p] = [IdleCall EXCEPT !.plan = plan_id,
                                                     !.result = Failed("KILL_SWITCH_ON")]]
       ELSE se' = [se EXCEPT ![p] = [IdleCall EXCEPT !.plan = plan_id,
                                                     !.pc = "plan_approved"]]
    /\ UNCHANGED <<http, ob, now, snapshots, plans, executions, runs, orders, fills,
                   audit, alerts, returned, job>>

\* guards.py check_plan_approved, lines 63: plan.status != APPROVED
PlanApprovedMut(status) == status # "REJECTED"
PlanApproved(status) == status = "APPROVED"

\* lines 46-47: check_plan_approved(db, plan_id)
SE_PlanApproved(p) ==
    /\ se[p].pc = "plan_approved"
    /\ IF se[p].plan > Len(plans)
       THEN Finish(p, Failed("PLAN_NOT_FOUND"))
       ELSE IF ~PlanApproved(plans[se[p].plan].status)
       THEN Finish(p, Failed("PLAN_NOT_APPROVED"))
       ELSE se' = [se EXCEPT ![p].pc = "exists"]
    /\ UNCHANGED <<http, ob, now, control, snapshots, plans, executions, runs, orders,
                   fills, audit, alerts, returned, calls, job>>

\* lines 49-64: the existence check
SE_CheckExisting(p) ==
    /\ se[p].pc = "exists"
    /\ LET existing == ExecutionOf(se[p].plan)
       IN IF existing # NoId
          THEN IF executions[existing].status = "DONE"
               THEN FinishAdmitted(p, Answer(existing))
               ELSE /\ se' = [se EXCEPT ![p].pc = "run", ![p].found = TRUE,
                                        ![p].execution = existing]
                    /\ UNCHANGED returned
          ELSE /\ se' = [se EXCEPT ![p].pc = "create"]
               /\ UNCHANGED returned
    /\ UNCHANGED <<http, ob, now, control, snapshots, plans, executions, runs, orders,
                   fills, audit, alerts, calls, job>>

\* lines 66-74: db.add(execution); db.commit()
SE_CreateExecution(p) ==
    /\ se[p].pc = "create"
    /\ IF UniquePlanId(se[p].plan)
       THEN /\ executions' = Append(executions,
                  [plan_id |-> se[p].plan, status |-> "PENDING",
                   started_at |-> NoTime, ended_at |-> NoTime, error |-> "NONE"])
            /\ se' = [se EXCEPT ![p].pc = "run",
                                ![p].execution = Len(executions) + 1]
            /\ UNCHANGED returned
       ELSE /\ FinishAdmitted(p, Failed("INTEGRITY_ERROR"))
            /\ UNCHANGED executions
    /\ UNCHANGED <<http, ob, now, control, snapshots, plans, runs, orders, fills,
                   audit, alerts, calls, job>>

\* lines 76-89: the plan, its items, the Run
SE_CreateRun(p) ==
    /\ se[p].pc = "run"
    /\ IF plans[se[p].plan].items = <<>>
       THEN /\ FinishAdmitted(p, Failed("PLAN_HAS_NO_ITEMS"))
            /\ UNCHANGED runs
       ELSE /\ runs' = Append(runs, [kind |-> "EXECUTE", status |-> "STARTED",
                                     error |-> "NONE", ended_at |-> NoTime,
                                     plan_id |-> se[p].plan])
            /\ se' = [se EXCEPT ![p].pc = "begin", ![p].run = Len(runs) + 1]
            /\ UNCHANGED returned
    /\ UNCHANGED <<http, ob, now, control, snapshots, plans, executions, orders,
                   fills, audit, alerts, calls, job>>

\* lines 91-94: execution.status = RUNNING
SE_Begin(p) ==
    /\ se[p].pc = "begin"
    /\ executions' = [executions EXCEPT ![se[p].execution].status = "RUNNING",
                                        ![se[p].execution].started_at = now]
    /\ se' = [se EXCEPT ![p].pc = "snapshot"]
    /\ UNCHANGED <<http, ob, now, control, snapshots, plans, runs, orders, fills,
                   audit, alerts, returned, calls, job>>

\* lines 113-130: the plan items with the quoted current_price
QuotedItems(items) ==
    [i \in 1 .. Len(items) |->
        [symbol |-> items[i].symbol, delta_weight |-> items[i].delta_weight,
         current_price |-> QuotePrice(items[i].symbol)]]

\* lines 99-101: the execution row of a call that found no snapshot
FailExecutionMut(execution, error, at) ==
    [execution EXCEPT !.status = "FAILED", !.error = error]
FailExecution(execution, error, at) ==
    [execution EXCEPT !.status = "FAILED", !.error = error, !.ended_at = at]
\* lines 102-103: the run row of a call that found no snapshot
FailRun(run, error) == [run EXCEPT !.status = "FAILED", !.error = error]

\* lines 96-137: the snapshot, the quotes, build_orders
SE_Snapshot(p) ==
    /\ se[p].pc = "snapshot"
    /\ IF snapshots = {}
       THEN /\ executions' = [executions EXCEPT ![se[p].execution] =
                                FailExecution(@, "No portfolio snapshot found", now)]
            /\ runs' = [runs EXCEPT ![se[p].run] =
                                FailRun(@, "No portfolio snapshot found")]
            /\ FinishAdmitted(p, Failed("NO_SNAPSHOT"))
       ELSE /\ se' = [se EXCEPT
                        ![p].pc = "order",
                        ![p].order_dicts =
                            build_orders(QuotedItems(plans[se[p].plan].items),
                                         LatestSnapshot.cash, LatestSnapshot.nav),
                        ![p].idx = 1,
                        ![p].cash_remaining = LatestSnapshot.cash,
                        ![p].positions = LatestSnapshot.positions]
            /\ UNCHANGED <<executions, runs, returned>>
    /\ UNCHANGED <<http, ob, now, control, snapshots, plans, orders, fills, audit,
                   alerts, calls, job>>

\* lines 152-154, 167-169: Decimal(str(limit_price)) if limit_price else None
LimitPriceMut(limit_price) == NoPrice
LimitPrice(limit_price) == IF limit_price # 0 THEN limit_price ELSE NoPrice

\* lines 147-157, 162-171: the Order row
OrderRow(p, order_dict, status) ==
    [plan_id |-> se[p].plan, execution_id |-> se[p].execution,
     symbol |-> order_dict.symbol, side |-> order_dict.side,
     qty |-> order_dict.qty, limit_price |-> LimitPrice(order_dict.limit_price),
     status |-> status, error |-> order_dict.error, broker_order_id |-> FALSE]

\* lines 156 and 170: the status the Order row is added with
PersistedStatusMut(order_dict) == "CREATED"
PersistedStatus(order_dict) ==
    IF order_dict.status = "SKIPPED" THEN "SKIPPED" ELSE "CREATED"

\* lines 139-174: the next order dict is persisted, SKIPPED or CREATED
SE_PersistOrder(p) ==
    /\ se[p].pc = "order"
    /\ se[p].idx <= Len(se[p].order_dicts)
    /\ LET order_dict == se[p].order_dicts[se[p].idx]
       IN /\ orders' = Append(orders,
                           OrderRow(p, order_dict, PersistedStatus(order_dict)))
          /\ IF order_dict.status = "SKIPPED"
             THEN se' = [se EXCEPT ![p].idx = se[p].idx + 1]
             ELSE se' = [se EXCEPT ![p].pc = "fill", ![p].order = Len(orders) + 1]
    /\ UNCHANGED <<http, ob, now, control, snapshots, plans, executions, runs, fills,
                   audit, alerts, returned, calls, job>>

\* lines 193-204: the in-memory positions after a fill
PositionsAfter(positions, symbol, side, filled_qty) ==
    LET current_qty == IF symbol \in DOMAIN positions THEN positions[symbol] ELSE 0
        new_qty == IF side = "SELL" THEN current_qty - filled_qty
                   ELSE current_qty + filled_qty
        held == IF side = "SELL" /\ new_qty <= 0
                THEN DOMAIN positions \ {symbol}
                ELSE DOMAIN positions \cup {symbol}
    IN [s \in held |-> IF s = symbol THEN new_qty ELSE positions[s]]

\* lines 193-204: the in-memory cash after a fill
CashAfterMut(cash_remaining, side, filled_qty, filled_price) ==
    cash_remaining - filled_qty * filled_price
CashAfter(cash_remaining, side, filled_qty, filled_price) ==
    IF side = "SELL" THEN cash_remaining + filled_qty * filled_price
    ELSE cash_remaining - filled_qty * filled_price

\* lines 176-206: the paper fill of the order just created
SE_FillOrder(p) ==
    /\ se[p].pc = "fill"
    /\ LET order_dict == se[p].order_dicts[se[p].idx]
           filled_price == order_dict.limit_price
           filled_qty == order_dict.qty
       IN /\ fills' = fills \cup {[order_id |-> se[p].order,
                                    filled_qty |-> filled_qty,
                                    filled_price |-> filled_price,
                                    filled_at |-> now]}
          /\ orders' = [orders EXCEPT ![se[p].order].status = "FILLED",
                                      ![se[p].order].broker_order_id = TRUE]
          /\ se' = [se EXCEPT
                      ![p].pc = "order", ![p].idx = se[p].idx + 1,
                      ![p].order = NoId,
                      ![p].cash_remaining =
                          CashAfter(se[p].cash_remaining, order_dict.side,
                                    filled_qty, filled_price),
                      ![p].positions =
                          PositionsAfter(se[p].positions, order_dict.symbol,
                                         order_dict.side, filled_qty)]
    /\ UNCHANGED <<http, ob, now, control, snapshots, plans, executions, runs, audit,
                   alerts, returned, calls, job>>

\* lines 136-137 and 193-213: cash_remaining and positions are locals (a float
\* and a copy of the snapshot's dict); the commits of the loop and of line 213
\* write no portfolio_snapshots row
LedgerSnapshotsMut(p) ==
    (snapshots \ {LatestSnapshot})
        \cup {[LatestSnapshot EXCEPT !.cash = se[p].cash_remaining,
                                     !.positions = se[p].positions]}
LedgerSnapshots(p) == snapshots

\* lines 208-213: execution DONE, run DONE
SE_Complete(p) ==
    /\ se[p].pc = "order"
    /\ se[p].idx > Len(se[p].order_dicts)
    /\ executions' = [executions EXCEPT ![se[p].execution].status = "DONE",
                                        ![se[p].execution].ended_at = now]
    /\ runs' = [runs EXCEPT ![se[p].run].status = "DONE",
                            ![se[p].run].ended_at = now]
    /\ se' = [se EXCEPT ![p].pc = "notify"]
    /\ snapshots' = LedgerSnapshots(p)
    /\ UNCHANGED <<http, ob, now, control, plans, orders, fills, audit,
                   alerts, returned, calls, job>>

\* lines 215-260: record_audit_event(execution_completed); the notification
\* when the execution row reads DONE; the answer
SE_Notify(p) ==
    /\ se[p].pc = "notify"
    /\ audit' = audit (+) SetToBag({AuditEvent("execution_completed", "system",
                                                "execution", se[p].execution)})
    /\ IF executions[se[p].execution].status = "DONE"
       THEN Notify("dev", "execution_completed", se[p].execution)
       ELSE alerts' = alerts
    /\ FinishAdmitted(p, Answer(se[p].execution))
    /\ UNCHANGED <<http, ob, now, control, snapshots, plans, executions, runs, orders,
                   fills, calls, job>>

(***************************************************************************)
(* packages/core/strategy.py: DualMomentumStrategy.select_universe         *)
(* A float is the exact fraction num / den (den > 0) it is computed as;    *)
(* the rounding of the binary64 quotient is not represented.               *)
(***************************************************************************)
MaxUniverseKR == 2
MaxUniverseUS == 3

\* the float n / d
Frac(n, d) == [num |-> n, den |-> d]
\* a == b, a < b and a + b on floats
FracEq(a, b) == a.num * b.den = b.num * a.den
FracLess(a, b) == a.num * b.den < b.num * a.den
FracAdd(a, b) == [num |-> a.num * b.den + b.num * a.den, den |-> a.den * b.den]

\* lines 21-25: (current / lookback) - 1, and 0.0 for a lookback of 0
calculate_momentum_score(current_price, lookback_price) ==
    IF lookback_price = 0 THEN Frac(0, 1)
    ELSE Frac(current_price - lookback_price, lookback_price)

\* lines 36-70: one row per symbol of the universe that has price data, in
\* the order of the universe
ScoreRows(universe, market, prices) ==
    LET Priced(symbol) == symbol \in DOMAIN prices
        priced == SelectSeq(universe, Priced)
    IN [i \in 1 .. Len(priced) |->
           [symbol |-> priced[i], market |-> market,
            score |-> calculate_momentum_score(prices[priced[i]].current,
                                               prices[priced[i]].lookback)]]

\* lines 73-74: list.sort(key = score, reverse = True) is stable: rows of equal
\* score keep their order
RECURSIVE InsertByScore(_, _)
InsertByScore(sorted, row) ==
    IF sorted = <<>> THEN <<row>>
    ELSE IF FracLess(Head(sorted).score, row.score) THEN <<row>> \o sorted
    ELSE <<Head(sorted)>> \o InsertByScore(Tail(sorted), row)

RECURSIVE SortByScore(_)
SortByScore(rows) ==
    IF rows = <<>> THEN <<>>
    ELSE InsertByScore(SortByScore(SubSeq(rows, 1, Len(rows) - 1)), rows[Len(rows)])

\* lines 76-77: scores[: top] for top >= 0
TopRowsMut(rows, top) ==
    SubSeq(rows, IF top < Len(rows) THEN Len(rows) - top + 1 ELSE 1, Len(rows))
TopRows(rows, top) == SubSeq(rows, 1, IF top < Len(rows) THEN top ELSE Len(rows))

\* lines 80-81: split / len(selected) if selected else 0
WeightPerMut(split, selected) == Frac(split, 1)
WeightPer(split, selected) ==
    IF selected # <<>> THEN Frac(split, Len(selected)) ELSE Frac(0, 1)

\* lines 83-89: item["target_weight"] = weight_per; selected.append(item)
Allocate(selected, weight_per) ==
    [i \in 1 .. Len(selected) |->
        [symbol |-> selected[i].symbol, market |-> selected[i].market,
         score |-> selected[i].score, target_weight |-> weight_per]]

\* the universes, the price data and the configurations drawn
UniverseSeqs(symbols, max_len) ==
    UNION { [1 .. n -> symbols] : n \in 0 .. max_len }
PriceData ==
    { [current |-> 1, lookback |-> 0], [current |-> 1, lookback |-> 1],
      [current |-> 2, lookback |-> 1] }
PriceTables == UNION { [priced -> PriceData] : priced \in SUBSET {"A", "B", "C"} }
\* kr_us_split in percent of NAV
SplitValues == { <<40, 60>>, <<0, 100>> }

SuIdle ==
    [pc |-> "idle", universe_kr |-> <<>>, universe_us |-> <<>>,
     prices |-> <<>>, kr_top_m |-> 0, us_top_n |-> 0, kr_us_split |-> <<0, 0>>,
     kr_scores |-> <<>>, us_scores |-> <<>>, selected_kr |-> <<>>,
     selected_us |-> <<>>, selected |-> <<>>]

\* line 27-34: select_universe is entered
SuInit ==
    \E universe_kr \in UniverseSeqs({"A", "B"}, MaxUniverseKR),
       universe_us \in UniverseSeqs({"B", "C"}, MaxUniverseUS),
       prices \in PriceTables, kr_top_m \in {1, 2}, us_top_n \in {1, 3},
       kr_us_split \in SplitValues :
        su = [SuIdle EXCEPT !.pc = "kr", !.universe_kr = universe_kr,
                            !.universe_us = universe_us, !.prices = prices,
                            !.kr_top_m = kr_top_m, !.us_top_n = us_top_n,
                            !.kr_us_split = kr_us_split]

\* lines 36-52
SU_ScoreKR ==
    /\ su.pc = "kr"
    /\ su' = [su EXCEPT !.pc = "us",
                        !.kr_scores = ScoreRows(su.universe_kr, "KR", su.prices)]

\* lines 54-70
SU_ScoreUS ==
    /\ su.pc = "us"
    /\ su' = [su EXCEPT !.pc = "select",
                        !.us_scores = ScoreRows(su.universe_us, "US", su.prices)]

\* lines 72-77
SU_Select ==
    /\ su.pc = "select"
    /\ su' = [su EXCEPT !.pc = "allocate",
                        !.kr_scores = SortByScore(su.kr_scores),
                        !.us_scores = SortByScore(su.us_scores),
                        !.selected_kr = TopRows(SortByScore(su.kr_scores), su.kr_top_m),
                        !.selected_us = TopRows(SortByScore(su.us_scores), su.us_top_n)]

\* lines 79-91
SU_Allocate ==
    /\ su.pc = "allocate"
    /\ LET kr_weight_per == WeightPer(su.kr_us_split[1], su.selected_kr)
           us_weight_per == WeightPer(su.kr_us_split[2], su.selected_us)
       IN su' = [su EXCEPT !.pc = "done",
                           !.selected_kr = Allocate(su.selected_kr, kr_weight_per),
                           !.selected_us = Allocate(su.selected_us, us_weight_per),
                           !.selected = Allocate(su.selected_kr, kr_weight_per)
                                        \o Allocate(su.selected_us, us_weight_per)]

(***************************************************************************)
(* The controls table, one action per database round trip of a call served *)
(* by worker p: check_kill_switch (packages/ops/guards.py), get_controls   *)
(* and set_kill_switch (apps/api/routers/controls.py)                      *)
(***************************************************************************)
CtlCalls == 3               \* calls that access the controls table

\* the locals and the answer of the last call of a worker
NoCtlCall ==
    [op |-> "none", pc |-> "idle", found |-> FALSE, on |-> FALSE,
     result |-> "none"]
CtlIdle == [rows |-> <<>>, call |-> [p \in Procs |-> NoCtlCall], started |-> 0]

\* db.query(Control).filter(Control.id == 1).first() returns a row
ControlFound == \E r \in 1 .. Len(ctl.rows) : ctl.rows[r].id = 1
\* the kill_switch column of that row
ControlKillSwitch ==
    ctl.rows[CHOOSE r \in 1 .. Len(ctl.rows) : ctl.rows[r].id = 1].kill_switch

\* models.py Control.id: primary_key=True.  TRUE when the INSERT is accepted
PrimaryKeyFree(id) == \A r \in 1 .. Len(ctl.rows) : ctl.rows[r].id # id

\* db.add(Control(id=1, kill_switch=...)); db.commit(): the row is inserted
\* and the call goes on to next_pc, or the commit raises IntegrityError
InsertControl(p, kill_switch, next_pc, result) ==
    IF PrimaryKeyFree(1)
    THEN ctl' = [ctl EXCEPT
                    !.rows = Append(@, [id |-> 1, kill_switch |-> kill_switch]),
                    !.call[p].pc = next_pc, !.call[p].result = result]
    ELSE ctl' = [ctl EXCEPT !.call[p].pc = "idle",
                            !.call[p].result = "IntegrityError"]

\* a request that accesses the controls table reaches a free worker
BeginControl(p, op, on, pc_found, pc_absent, result) ==
    /\ ctl.call[p].pc = "idle"
    /\ ctl.started < CtlCalls
    /\ ctl' = [ctl EXCEPT
                  !.started = @ + 1,
                  !.call[p] = [op |-> op, found |-> ControlFound, on |-> on,
                               pc |-> IF ControlFound THEN pc_found ELSE pc_absent,
                               result |-> result]]
    /\ UNCHANGED <<ob, su, broker, cc, sysvars>>

\* guards.py lines 20 and 29-36: the query; the row found decides
CK_Query(p) ==
    BeginControl(p, "check_kill_switch", FALSE, "idle", "insert",
                 IF ~ControlFound THEN "none"
                 ELSE IF ControlKillSwitch THEN "KILL_SWITCH_ON" ELSE "passed")

\* guards.py lines 21-26: no row was found
CK_Insert(p) ==
    /\ ctl.call[p].op = "check_kill_switch" /\ ctl.call[p].pc = "insert"
    /\ InsertControl(p, FALSE, "idle", "passed")
    /\ UNCHANGED <<ob, su, broker, cc, sysvars>>

\* controls.py line 18: the query of get_controls
GC_Query(p) == BeginControl(p, "get_controls", FALSE, "answer", "insert", "none")

\* controls.py lines 19-23: no row was found
GC_Insert(p) ==
    /\ ctl.call[p].op = "get_controls" /\ ctl.call[p].pc = "insert"
    /\ InsertControl(p, FALSE, "answer", "none")
    /\ UNCHANGED <<ob, su, broker, cc, sysvars>>

\* controls.py lines 24-29 and 47: the row as the session reads it after the
\* query, the refresh or the commit
ControlAnswer(p) ==
    /\ ctl.call[p].pc = "answer"
    /\ ctl' = [ctl EXCEPT !.call[p].pc = "idle",
                          !.call[p].result =
                              IF ControlKillSwitch THEN "on" ELSE "off"]
    /\ UNCHANGED <<ob, su, broker, cc, sysvars>>

\* controls.py line 38: the query of set_kill_switch
KS_Query(p, on) == BeginControl(p, "set_kill_switch", on, "write", "write", "none")

\* controls.py lines 39-46: the INSERT, or the UPDATE of the row of id 1
KS_Write(p) ==
    /\ ctl.call[p].op = "set_kill_switch" /\ ctl.call[p].pc = "write"
    /\ IF ~ctl.call[p].found
       THEN InsertControl(p, ctl.call[p].on, "answer", "none")
       ELSE ctl' = [ctl EXCEPT
                       !.rows = [r \in 1 .. Len(ctl.rows) |->
                                    IF ctl.rows[r].id = 1
                                    THEN [ctl.rows[r] EXCEPT
                                            !.kill_switch = ctl.call[p].on]
                                    ELSE ctl.rows[r]],
                       !.call[p].pc = "answer"]
    /\ UNCHANGED <<ob, su, broker, cc, sysvars>>

(***************************************************************************)
(* Specifications                                                          *)
(***************************************************************************)
\* a request arrives at worker p, the job is triggered, time passes; at most
\* max_plans plans, max_snapshots snapshots and max_calls start_execution calls
Arrive(p, max_plans, max_snapshots, max_calls) ==
    \/ /\ Len(plans) < max_plans
       /\ \E c \in ConfigRequests, selected \in Selections : GeneratePlan(c, selected)
    \/ \E pl \in 1 .. max_plans : ApprovePlan(pl)
    \/ \E pl \in 1 .. max_plans : RejectPlan(pl)
    \/ \E pl \in 1 .. max_plans : ExpirePlan(pl)
    \/ GetControls
    \/ \E on \in BOOLEAN : SetKillSwitch(on)
    \/ /\ Cardinality(snapshots) < max_snapshots
       /\ \E r \in SnapshotRequests : CreatePortfolioSnapshot(r)
    \/ Tick
    \/ Job_Read
    \/ /\ calls < max_calls
       /\ \E pl \in 1 .. max_plans : SE_KillSwitch(p, pl)

\* a call or the job in flight takes its next step
Proceed(p) ==
    \/ Job_Commit
    \/ SE_PlanApproved(p)
    \/ SE_CheckExisting(p)
    \/ SE_CreateExecution(p)
    \/ SE_CreateRun(p)
    \/ SE_Begin(p)
    \/ SE_Snapshot(p)
    \/ SE_PersistOrder(p)
    \/ SE_FillOrder(p)
    \/ SE_Complete(p)
    \/ SE_Notify(p)

\* the store after the migrations: empty
Init == ob = ObIdle /\ SysInit /\ broker = NoBroker /\ su = SuIdle /\ ctl = CtlIdle /\ cc = CcIdle /\ http = NoHttp

\* the store is empty, or seeded as the tests seed it
InitSeq ==
    /\ ob = ObIdle /\ (SysInit \/ SeededInit) /\ broker = NoBroker
    /\ su = SuIdle /\ ctl = CtlIdle /\ cc = CcIdle /\ http = NoHttp

\* several workers and the job interleave at their database round trips
Next ==
    /\ \E p \in Procs : \/ Arrive(p, RacePlans, RaceSnapshots, RaceCalls)
                         \/ Proceed(p)
    /\ UNCHANGED <<ob, broker, su, ctl, cc>>
Spec == Init /\ [][Next]_vars

\* nothing in flight: no call has started and not answered, the job is idle
Quiet == ~job.running /\ \A p \in Procs : se[p].pc = "idle"

\* one worker, each request and each job run served to its end before the next
NextSeq ==
    /\ \/ Quiet /\ Arrive("w1", MaxPlans, MaxSnapshots, MaxCalls)
       \/ Proceed("w1")
    /\ UNCHANGED <<ob, broker, su, ctl, cc>>
SpecSeq == InitSeq /\ [][NextSeq]_vars

\* build_orders and the order loop of start_execution (lines 132-260) over
\* all inputs of the bounded sets: worker w1 serves a call that has reached
\* line 132 for a plan with the drawn items, the snapshot holding the drawn
\* cash and nav; build_orders runs step by step and hands over its result
InitOB ==
    /\ ObInit
    /\ broker = NoBroker
    /\ su = SuIdle /\ ctl = CtlIdle /\ cc = CcIdle
    /\ http = NoHttp
    /\ now = 0
    /\ control = [present |-> TRUE, kill_switch |-> FALSE]
    /\ snapshots = {[asof |-> 1, cash |-> ob.cash_available, nav |-> ob.nav,
                     positions |-> [s \in {1, 2} |-> IF s = 1 THEN 2 ELSE 1]]}
    /\ plans = <<[status |-> "APPROVED", run_id |-> 1, expires_at |-> ExpiryDays,
                  constraint_checks |-> [passed |-> TRUE, errors |-> <<>>],
                  items |-> [i \in 1 .. Len(ob.plan_items) |->
                      LET d == ob.plan_items[i].delta_weight
                      IN PlanItem(i, IF d < 0 THEN -d ELSE 0, IF d > 0 THEN d ELSE 0)]]>>
    /\ executions = <<[plan_id |-> 1, status |-> "RUNNING", started_at |-> 0,
                       ended_at |-> NoTime, error |-> "NONE"]>>
    /\ runs = <<[kind |-> "PLAN", status |-> "DONE", error |-> "NONE",
                 ended_at |-> NoTime, plan_id |-> 1],
                [kind |-> "EXECUTE", status |-> "STARTED", error |-> "NONE",
                 ended_at |-> NoTime, plan_id |-> 1]>>
    /\ orders = <<>>
    /\ fills = {}
    /\ audit = SetToBag({AuditEvent("plan_created", "system", "plan", 1),
                         AuditEvent("plan_approved", "approver", "plan", 1)})
    /\ alerts = SetToBag(
          {Alert("dev", "plan_created", 1, "none", "False"),
           Alert("dev", "plan_approved", 1, "none", "False")})
    /\ se = [p \in Procs |->
                IF p = "w1"
                THEN [IdleCall EXCEPT !.pc = "build", !.plan = 1,
                                      !.execution = 1, !.run = 2]
                ELSE IdleCall]
    /\ returned = [pl \in PlanIds |-> <<>>]
    /\ calls = 1
    /\ job = NoJob

\* line 133-137: order_dicts = build_orders(...) has returned
SE_OrdersBuilt(p) ==
    /\ se[p].pc = "build"
    /\ ob.pc = "done"
    /\ se' = [se EXCEPT ![p].pc = "order", ![p].order_dicts = ob.result,
                        ![p].idx = 1,
                        ![p].cash_remaining = LatestSnapshot.cash,
                        ![p].positions = LatestSnapshot.positions]
    /\ UNCHANGED <<http, ob, now, control, snapshots, plans, executions, runs, orders,
                   fills, audit, alerts, returned, calls, job>>

NextOB ==
    /\ \/ OB_Next /\ UNCHANGED sysvars
       \/ SE_OrdersBuilt("w1")
       \/ SE_PersistOrder("w1")
       \/ SE_FillOrder("w1")
       \/ SE_Complete("w1")
       \/ SE_Notify("w1")
    /\ UNCHANGED <<broker, su, ctl, cc>>
SpecOB == InitOB /\ [][NextOB]_vars

\* the brokers alone: the environment changes, orders are placed
InitBroker ==
    ob = ObIdle /\ SysInit /\ broker = NoBroker /\ su = SuIdle /\ ctl = CtlIdle /\ cc = CcIdle /\ http = NoHttp
NextBroker ==
    \/ \E name \in {"BROKER_MODE", "ENABLE_LIVE_TRADING"}, value \in EnvValues :
          Setenv(name, value)
    \/ \E side \in OrderSides : PlaceOrder([symbol |-> "005930", side |-> side])
SpecBroker == InitBroker /\ [][NextBroker]_vars

\* slack.send under every configuration of the webhooks: called directly, and
\* by the handlers of one worker serving one plan and one start_execution
MaxSends == 1
SlackCalls == 1
WebhookEnvs ==
    { [NoBroker.environ EXCEPT !["SLACK_WEBHOOK_DEV"] = dev,
                               !["SLACK_WEBHOOK_ALERTS"] = al]
        : dev \in WebhookValues, al \in WebhookValues \ {""} }
InitSlack ==
    /\ ob = ObIdle /\ SysInit /\ su = SuIdle /\ ctl = CtlIdle /\ cc = CcIdle /\ http = NoHttp
    /\ \E environ \in WebhookEnvs : broker = [NoBroker EXCEPT !.environ = environ]

\* test_slack.py lines 9-18, smoke.py: send(level, channel, "Test", {})
SlackSend(channel) ==
    /\ LET direct == {a \in BagToSet(alerts) : a.title = "Test"}
       IN BagCardinality([a \in direct |-> alerts[a]]) < MaxSends
    /\ Notify(channel, "Test", NoId)
    /\ UNCHANGED <<http, ob, now, control, snapshots, plans, executions, runs, orders,
                   fills, audit, se, returned, calls, job>>

NextSlack ==
    /\ \/ Quiet /\ Arrive("w1", RacePlans, RaceSnapshots, SlackCalls)
       \/ Quiet /\ \E channel \in Channels : SlackSend(channel)
       \/ Proceed("w1")
    /\ UNCHANGED <<ob, broker, su, ctl, cc>>
SpecSlack == InitSlack /\ [][NextSlack]_vars

\* one worker serving its requests one by one, the answers of the plan
\* handlers kept
GuardPlans == 1
GuardSnapshots == 1
GuardCalls == 2
InitGuard ==
    /\ ob = ObIdle /\ SysInit /\ broker = NoBroker /\ su = SuIdle /\ ctl = CtlIdle /\ cc = CcIdle
    /\ http = [NoHttp EXCEPT !.log = TRUE]
NextGuard ==
    /\ \/ Quiet /\ Arrive("w1", GuardPlans, GuardSnapshots, GuardCalls)
       \/ Proceed("w1")
    /\ UNCHANGED <<ob, broker, su, ctl, cc>>
SpecGuard == InitGuard /\ [][NextGuard]_vars

\* one worker over snapshots that differ in cash, NAV and positions: the
\* request bodies of create_portfolio_snapshot are not restricted, so a later
\* snapshot may carry any ledger and any asof not yet taken
LatestPlans == 1
LatestSnapshots == 2
LatestCalls == 1
LedgerRequests ==
    { [asof |-> a, cash |-> c, nav |-> n, positions |-> [s \in {"A"} |-> q]]
        : a \in 1 .. LatestSnapshots, c \in {400, 800}, n \in {200, 400},
          q \in {2, 4} }
InitLatest == ob = ObIdle /\ SysInit /\ broker = NoBroker /\ su = SuIdle /\ ctl = CtlIdle /\ cc = CcIdle /\ http = NoHttp
NextLatest ==
    /\ \/ /\ Quiet
          /\ \/ /\ Len(plans) < LatestPlans
                /\ \E c \in ConfigRequests, selected \in Selections :
                      GeneratePlan(c, selected)
             \/ \E pl \in 1 .. LatestPlans : ApprovePlan(pl)
             \/ /\ Cardinality(snapshots) < LatestSnapshots
                /\ \E r \in LedgerRequests : CreatePortfolioSnapshot(r)
             \/ /\ calls < LatestCalls
                /\ \E pl \in 1 .. LatestPlans : SE_KillSwitch("w1", pl)
       \/ SE_PlanApproved("w1")
       \/ SE_CheckExisting("w1")
       \/ SE_CreateExecution("w1")
       \/ SE_CreateRun("w1")
       \/ SE_Begin("w1")
       \/ SE_Snapshot("w1")
       \/ SE_PersistOrder("w1")
       \/ SE_FillOrder("w1")
       \/ SE_Complete("w1")
       \/ SE_Notify("w1")
    /\ UNCHANGED <<ob, broker, su, ctl, cc>>
SpecLatest == InitLatest /\ [][NextLatest]_vars

\* the calls that access the controls table, served by two workers that
\* interleave at their database round trips
InitControl ==
    /\ ob = ObIdle /\ SysInit /\ broker = NoBroker /\ su = SuIdle
    /\ ctl = CtlIdle /\ cc = CcIdle /\ http = NoHttp
NextControl ==
    \E p \in Procs :
        \/ CK_Query(p)
        \/ CK_Insert(p)
        \/ GC_Query(p)
        \/ GC_Insert(p)
        \/ \E on \in BOOLEAN : KS_Query(p, on)
        \/ KS_Write(p)
        \/ ControlAnswer(p)
SpecControl == InitControl /\ [][NextControl]_vars

\* check_all over all inputs of the bounded sets
InitCC ==
    /\ ob = ObIdle /\ SysInit /\ broker = NoBroker /\ su = SuIdle
    /\ ctl = CtlIdle /\ CcInit /\ http = NoHttp
NextCC ==
    /\ CC_Check \/ CC_Return
    /\ UNCHANGED <<ob, broker, su, ctl>>
    /\ UNCHANGED sysvars
SpecCC == InitCC /\ [][NextCC]_vars

\* one worker serves the requests one after the other while the operator's
\* set_kill_switch requests are served at any moment, also between two
\* database round trips of a start_execution call; a call that has started
\* runs on to its answer (the handler is synchronous code)
KillPlans == 1
KillSnapshots == 1
KillCalls == 2
CallStep(p) ==
    \/ SE_PlanApproved(p)
    \/ SE_CheckExisting(p)
    \/ SE_CreateExecution(p)
    \/ SE_CreateRun(p)
    \/ SE_Begin(p)
    \/ SE_Snapshot(p)
    \/ SE_PersistOrder(p)
    \/ SE_FillOrder(p)
    \/ SE_Complete(p)
    \/ SE_Notify(p)
InitKill ==
    /\ ob = ObIdle /\ SysInit /\ broker = NoBroker /\ su = SuIdle
    /\ ctl = CtlIdle /\ cc = CcIdle /\ http = NoHttp
CallRuns(p) == CallStep(p) /\ UNCHANGED <<ob, broker, su, ctl, cc>>
NextKill ==
    \/ /\ \/ Quiet /\ Arrive("w1", KillPlans, KillSnapshots, KillCalls)
          \/ ~Quiet /\ \E on \in BOOLEAN : SetKillSwitch(on)
          \/ Job_Commit
       /\ UNCHANGED <<ob, broker, su, ctl, cc>>
    \/ CallRuns("w1")
SpecKill == InitKill /\ [][NextKill]_vars /\ WF_vars(CallRuns("w1"))

\* select_universe over all inputs of the bounded sets
InitSU == ob = ObIdle /\ SysInit /\ broker = NoBroker /\ SuInit /\ ctl = CtlIdle /\ cc = CcIdle /\ http = NoHttp
NextSU ==
    /\ SU_ScoreKR \/ SU_ScoreUS \/ SU_Select \/ SU_Allocate
    /\ UNCHANGED <<ob, broker, ctl, cc>>
    /\ UNCHANGED sysvars
SpecSU == InitSU /\ [][NextSU]_vars


(***************************************************************************)
(* Properties of build_orders and of the order loop (SpecOB)               *)
(***************************************************************************)
\* every SELL of s comes before every BUY of s
SellsBeforeBuys(s) ==
    \A i, j \in 1 .. Len(s) : (s[i].side = "SELL" /\ s[j].side = "BUY") => i < j

\* the summed estimated_cost of the orders of s that are not SKIPPED
RECURSIVE AdmittedCost(_)
AdmittedCost(s) ==
    IF s = <<>> THEN 0
    ELSE (IF Head(s).status = "SKIPPED" THEN 0 ELSE Head(s).estimated_cost)
         + AdmittedCost(Tail(s))

\* the budget left when the k-th ranked buy candidate is considered
BudgetBefore(k) == ob.cash_available - AdmittedCost(SubSeq(ob.orders, 1, k - 1))

\* C8: in the list build_orders returns every SELL order comes before every
\* BUY order, and start_execution persists the orders in that same order,
\* filling each admitted order before it persists the next one, so every
\* SELL row is persisted and filled before any BUY row.
C8_SellsBeforeBuys ==
    /\ ob.pc = "done" => SellsBeforeBuys(ob.result)
    /\ SellsBeforeBuys(orders)
    /\ \A k \in 1 .. Len(orders) - 1 : orders[k].status \in {"FILLED", "SKIPPED"}
    /\ \A p \in Procs :
          se[p].pc \in {"order", "fill"} =>
              /\ Len(orders) = IF se[p].pc = "fill" THEN se[p].idx ELSE se[p].idx - 1
              /\ \A k \in 1 .. Len(orders) :
                    /\ orders[k].symbol = se[p].order_dicts[k].symbol
                    /\ orders[k].side = se[p].order_dicts[k].side

\* C8 witness: a served call whose rows hold a filled SELL, a filled BUY and
\* a SKIPPED BUY
C8_Witness ==
    /\ ob.pc = "done"
    /\ se["w1"].pc = "idle" /\ se["w1"].result.code = "OK"
    /\ \E i, j, k \in 1 .. Len(orders) :
          /\ orders[i].side = "SELL" /\ orders[i].status = "FILLED"
          /\ orders[j].side = "BUY" /\ orders[j].status = "FILLED"
          /\ orders[k].side = "BUY" /\ orders[k].status = "SKIPPED"

\* C9 (as amended): for a cash_available that is not negative, at every step
\* of the admission loop the summed estimated_cost of the BUY orders admitted
\* so far is at most cash_available, and the remaining budget, which is
\* cash_available less that sum, is never negative.
C9_BudgetNeverExceeded ==
    (ob.pc \in {"admit", "done"} /\ ob.cash_available >= 0) =>
        /\ AdmittedCost(ob.orders) <= ob.cash_available
        /\ ob.cash_remaining = ob.cash_available - AdmittedCost(ob.orders)
        /\ ob.cash_remaining >= 0

\* C9 witness: the loop has ended on a budget spent to zero, with a candidate
\* admitted and a candidate SKIPPED
C9_Witness ==
    /\ ob.pc = "done" /\ ob.cash_available > 0 /\ ob.cash_remaining = 0
    /\ \E i, j \in 1 .. Len(ob.orders) :
          ob.orders[i].status # "SKIPPED" /\ ob.orders[j].status = "SKIPPED"

\* C9 as stated, for every cash_available: the admitted sum is at most
\* cash_available and the remaining budget is never negative
C9_Original ==
    ob.pc \in {"admit", "done"} =>
        /\ AdmittedCost(ob.orders) <= ob.cash_available
        /\ ob.cash_remaining >= 0

\* the buy candidates stand in descending estimated_cost, equal costs in the
\* order of the plan items, and are considered in that order
RankedDescending ==
    /\ \A i, j \in 1 .. Len(ob.buy_orders) :
          i < j => /\ ob.buy_orders[i].estimated_cost >= ob.buy_orders[j].estimated_cost
                   /\ (ob.buy_orders[i].estimated_cost = ob.buy_orders[j].estimated_cost
                           => ob.buy_orders[i].symbol < ob.buy_orders[j].symbol)
    /\ Len(ob.orders) <= Len(ob.buy_orders)
    /\ \A k \in 1 .. Len(ob.orders) : ob.orders[k].symbol = ob.buy_orders[k].symbol

\* C10 (as amended): BUY candidates are considered in descending
\* estimated_cost; a candidate is SKIPPED exactly when its cost exceeds the
\* budget left at its turn, so the first candidate that does not fit is
\* SKIPPED, and a candidate ranked after a SKIPPED one is still admitted when
\* its cost fits the budget left; the BUY orders returned keep the ranking.
C10_GreedyAdmission ==
    ob.pc \in {"admit", "done"} =>
        /\ RankedDescending
        /\ \A k \in 1 .. Len(ob.orders) :
              (ob.orders[k].status = "SKIPPED")
                  <=> (ob.orders[k].estimated_cost > BudgetBefore(k))
        /\ ob.pc = "done" => SelectSide(ob.result, "BUY") = ob.orders

\* C10 witness: a candidate was admitted after a higher-ranked one was SKIPPED
C10_Witness ==
    /\ ob.pc = "done"
    /\ \E i, j \in 1 .. Len(ob.orders) :
          i < j /\ ob.orders[i].status = "SKIPPED" /\ ob.orders[j].status # "SKIPPED"

\* C10 as stated: descending order, and no candidate ranked after a SKIPPED
\* candidate is admitted
C10_Original ==
    ob.pc \in {"admit", "done"} =>
        /\ RankedDescending
        /\ \A i, j \in 1 .. Len(ob.orders) :
              (i < j /\ ob.orders[i].status = "SKIPPED")
                  => ob.orders[j].status = "SKIPPED"


\* C11: a BUY candidate whose estimated_cost exceeds the remaining budget is
\* returned SKIPPED with the insufficient-cash error naming its cost and the
\* budget, keeps the full quantity and cost of its plan item, and leaves the
\* remaining budget as it was; a candidate that fits is admitted and lowers
\* the budget by its cost.
C11_SkippedKeepsBudget ==
    [][(ob.pc = "admit" /\ Len(ob'.orders) = Len(ob.orders) + 1) =>
          LET k == Len(ob'.orders)
              candidate == ob.buy_orders[k]
              decided == ob'.orders[k]
              item == ob.plan_items[candidate.symbol]
              full_qty == IF item.current_price > 0
                          THEN (item.delta_weight * ob.nav) \div item.current_price
                          ELSE 0
          IN /\ decided.symbol = candidate.symbol
             /\ decided.side = "BUY"
             /\ decided.qty = full_qty
             /\ decided.estimated_cost = item.delta_weight * ob.nav
             /\ IF candidate.estimated_cost > ob.cash_remaining
                THEN /\ decided.status = "SKIPPED"
                     /\ decided.error = <<"Insufficient cash",
                                          candidate.estimated_cost, ob.cash_remaining>>
                     /\ ob'.cash_remaining = ob.cash_remaining
                ELSE /\ decided.status # "SKIPPED"
                     /\ decided.error = NoError
                     /\ ob'.cash_remaining =
                            ob.cash_remaining - candidate.estimated_cost]_vars

\* C11 witness: with cash 8 the candidate costing 6 was admitted, the one
\* costing 4 was SKIPPED at its full quantity and the budget left is 2
C11_Witness ==
    /\ ob.pc = "done" /\ ob.cash_available = 8 /\ ob.cash_remaining = 2
    /\ Len(ob.orders) = 2
    /\ ob.orders[1].estimated_cost = 6 /\ ob.orders[1].status # "SKIPPED"
    /\ ob.orders[2].estimated_cost = 4 /\ ob.orders[2].status = "SKIPPED"
    /\ ob.orders[2].qty = 2
    /\ ob.orders[2].error = <<"Insufficient cash", 4, 2>>

\* the orders of s for symbol
OrdersFor(s, symbol) ==
    LET ForSymbol(o) == o.symbol = symbol
    IN SelectSeq(s, ForSymbol)

\* C25: build_orders returns no order for an item of zero delta_weight, for an
\* item of negative delta_weight exactly one order, a SELL that is not SKIPPED
\* whatever the cash, and for an item of positive delta_weight exactly one
\* order, a BUY, admitted or SKIPPED; it returns no other order
C25_OneOrderPerNonZeroItem ==
    ob.pc = "done" =>
        /\ \A k \in 1 .. Len(ob.result) : ob.result[k].symbol \in 1 .. Len(ob.plan_items)
        /\ \A i \in 1 .. Len(ob.plan_items) :
              LET delta == ob.plan_items[i].delta_weight
                  mine == OrdersFor(ob.result, ob.plan_items[i].symbol)
              IN /\ delta = 0 => mine = <<>>
                 /\ delta < 0 => /\ Len(mine) = 1
                                 /\ mine[1].side = "SELL"
                                 /\ mine[1].status = NoStatus
                 /\ delta > 0 => /\ Len(mine) = 1
                                 /\ mine[1].side = "BUY"
                                 /\ mine[1].status \in {NoStatus, "SKIPPED"}

\* build_orders has returned, for three items and a negative cash_available, no
\* order for the item of zero delta, a SELL and a SKIPPED BUY
C25_Witness ==
    /\ ob.pc = "done"
    /\ ob.cash_available < 0
    /\ Len(ob.plan_items) = 3 /\ Len(ob.result) = 2
    /\ \E i \in 1 .. 3 : ob.plan_items[i].delta_weight = 0
    /\ ob.result[1].side = "SELL" /\ ob.result[1].status = NoStatus
    /\ ob.result[2].side = "BUY" /\ ob.result[2].status = "SKIPPED"

\* the items of s that are not sold: those of zero or positive delta_weight
WithoutSells(s) ==
    LET NotSold(item) == item.delta_weight >= 0
    IN SelectSeq(s, NotSold)

\* C26: the BUY orders build_orders returns, admitted and SKIPPED, are those it
\* returns for the same cash_available and nav when the negative-delta items
\* are taken out of the input: two inputs that differ only in their
\* negative-delta items get the same BUY orders, and no sell proceeds enter
\* the buy budget
C26_BuysIndependentOfSells ==
    ob.pc = "done" =>
        SelectSide(ob.result, "BUY") =
            SelectSide(build_orders(WithoutSells(ob.plan_items),
                                    ob.cash_available, ob.nav), "BUY")

\* build_orders has returned a SELL with proceeds and a SKIPPED BUY that the
\* proceeds added to cash_available would have paid for
C26_Witness ==
    /\ ob.pc = "done"
    /\ \E k, l \in 1 .. Len(ob.result) :
          /\ ob.result[k].side = "SELL"
          /\ ob.result[k].qty * ob.result[k].limit_price > 0
          /\ ob.result[l].side = "BUY" /\ ob.result[l].status = "SKIPPED"
          /\ ob.result[l].estimated_cost <=
                ob.cash_available + ob.result[k].qty * ob.result[k].limit_price

\* C27: for an item whose current_price is zero or missing build_orders
\* returns an order of quantity zero, a SELL for a negative and a BUY for a
\* positive delta_weight
C27_ZeroPriceZeroQuantity ==
    ob.pc = "done" =>
        \A i \in 1 .. Len(ob.plan_items) :
            LET item == ob.plan_items[i]
                mine == OrdersFor(ob.result, item.symbol)
            IN (item.current_price \in {0, MissingPrice} /\ item.delta_weight # 0) =>
                  /\ Len(mine) = 1
                  /\ mine[1].qty = 0
                  /\ mine[1].side = IF item.delta_weight < 0 THEN "SELL" ELSE "BUY"

\* build_orders has returned a SELL of quantity zero for an item without a
\* price and a BUY of quantity zero for an item of price zero
C27_Witness ==
    /\ ob.pc = "done"
    /\ \E i, j \in 1 .. Len(ob.plan_items) :
          /\ ob.plan_items[i].current_price = MissingPrice
          /\ ob.plan_items[i].delta_weight < 0
          /\ ob.plan_items[j].current_price = 0
          /\ ob.plan_items[j].delta_weight > 0
          /\ \E k, l \in 1 .. Len(ob.result) :
                /\ ob.result[k].symbol = i /\ ob.result[k].side = "SELL"
                /\ ob.result[k].qty = 0
                /\ ob.result[l].symbol = j /\ ob.result[l].side = "BUY"
                /\ ob.result[l].qty = 0

\* the order row was refused by build_orders for insufficient cash
RejectedForCash(order) ==
    order.error # NoError /\ order.error[1] = "Insufficient cash"

\* C28: an order row refused for insufficient cash is added SKIPPED and every
\* other order row is added CREATED; a CREATED row is held only by the call
\* that added it and is about to fill it, and the only change of an order
\* status is from CREATED to FILLED, so that a FILLED or SKIPPED order keeps
\* its status and a SKIPPED order was never CREATED
C28_OrderStatusLifecycle ==
    [][/\ Len(orders') >= Len(orders)
       /\ \A o \in 1 .. Len(orders) :
             \/ orders'[o].status = orders[o].status
             \/ orders[o].status = "CREATED" /\ orders'[o].status = "FILLED"
       /\ \A o \in Len(orders) + 1 .. Len(orders') :
             orders'[o].status =
                 IF RejectedForCash(orders'[o]) THEN "SKIPPED" ELSE "CREATED"
       /\ \A o \in 1 .. Len(orders') :
             orders'[o].status = "CREATED" =>
                 \E p \in Procs : se'[p].pc = "fill" /\ se'[p].order = o]_vars

\* the order loop has filled a SELL, skipped a BUY for insufficient cash and
\* has just added the next BUY as CREATED
C28_Witness ==
    \E s, k, c \in 1 .. Len(orders) :
        /\ orders[s].side = "SELL" /\ orders[s].status = "FILLED"
        /\ orders[k].side = "BUY" /\ orders[k].status = "SKIPPED"
        /\ RejectedForCash(orders[k])
        /\ k < c /\ orders[c].side = "BUY" /\ orders[c].status = "CREATED"
        /\ se["w1"].pc = "fill" /\ se["w1"].order = c

\* the quantity of symbol in the in-memory positions (0 when it is not held)
HeldQty(positions, symbol) ==
    IF symbol \in DOMAIN positions THEN positions[symbol] ELSE 0

\* C30: the step that fills an order adds, for a SELL, the filled quantity
\* times the fill price to the call's running cash and takes the quantity off
\* the symbol's position, dropping the symbol when nothing positive is left;
\* for a BUY it takes that amount off the running cash and adds the quantity
\* to the symbol's position; no other position changes; the step that
\* persists a SKIPPED order changes neither cash nor positions
C30_LedgerPerFilledOrder ==
    [][\A p \in Procs :
          /\ (se[p].pc = "fill" /\ se'[p].pc # "fill") =>
                LET o == se[p].order
                    fill == CHOOSE f \in fills' : f.order_id = o
                    symbol == orders[o].symbol
                    held == HeldQty(se[p].positions, symbol)
                    amount == fill.filled_qty * fill.filled_price
                IN /\ orders'[o].status = "FILLED"
                   /\ \A s \in (DOMAIN se[p].positions \cup DOMAIN se'[p].positions)
                                  \ {symbol} :
                         /\ s \in DOMAIN se[p].positions
                         /\ s \in DOMAIN se'[p].positions
                         /\ se'[p].positions[s] = se[p].positions[s]
                   /\ IF orders[o].side = "SELL"
                      THEN /\ se'[p].cash_remaining = se[p].cash_remaining + amount
                           /\ IF held - fill.filled_qty > 0
                              THEN /\ symbol \in DOMAIN se'[p].positions
                                   /\ se'[p].positions[symbol] = held - fill.filled_qty
                              ELSE symbol \notin DOMAIN se'[p].positions
                      ELSE /\ se'[p].cash_remaining = se[p].cash_remaining - amount
                           /\ symbol \in DOMAIN se'[p].positions
                           /\ se'[p].positions[symbol] = held + fill.filled_qty
          /\ (/\ se[p].pc = "order" /\ se'[p].pc = "order"
              /\ Len(orders') = Len(orders) + 1
              /\ orders'[Len(orders')].status = "SKIPPED") =>
                /\ se'[p].cash_remaining = se[p].cash_remaining
                /\ se'[p].positions = se[p].positions]_vars

\* the order loop is through: a SELL left one share of symbol 1, a SELL sold
\* symbol 2 out, a BUY opened a position in symbol 3, and the running cash is
\* the snapshot's cash plus the proceeds less the cost
C30_Witness ==
    /\ se["w1"].pc = "order"
    /\ se["w1"].idx > Len(se["w1"].order_dicts)
    /\ Len(orders) = 3
    /\ \A o \in 1 .. 3 : orders[o].status = "FILLED" /\ orders[o].qty > 0
    /\ DOMAIN se["w1"].positions = {1, 3}
    /\ se["w1"].positions[1] = 1
    /\ se["w1"].positions[3] = orders[3].qty
    /\ se["w1"].cash_remaining =
          ob.cash_available + orders[1].qty * orders[1].limit_price
                            + orders[2].qty * orders[2].limit_price
                            - orders[3].qty * orders[3].limit_price

(***************************************************************************)
(* Properties of the running cash of the order loop (SpecOB)               *)
(***************************************************************************)
\* filled quantity times fill price of order o, 0 while it has no fill
FilledAmount(o) ==
    IF \E f \in fills : f.order_id = o
    THEN LET f == CHOOSE f \in fills : f.order_id = o
         IN f.filled_qty * f.filled_price
    ELSE 0

\* the sum of the filled amounts of the orders 1 .. k of the given side
RECURSIVE FilledSum(_, _)
FilledSum(k, side) ==
    IF k = 0 THEN 0
    ELSE FilledSum(k - 1, side)
            + IF orders[k].side = side THEN FilledAmount(k) ELSE 0

ExecuteRunsOf(pl) ==
    {r \in 1 .. Len(runs) : runs[r].kind = "EXECUTE" /\ runs[r].plan_id = pl}

\* plan pl has one set of orders and fills: no order of it is persisted
\* twice, no order is filled twice
OneOrderSet(pl) ==
    /\ \A i, j \in 1 .. Len(orders) :
          (/\ orders[i].plan_id = pl /\ orders[j].plan_id = pl
           /\ orders[i].symbol = orders[j].symbol
           /\ orders[i].side = orders[j].side) => i = j
    /\ \A f, g \in fills : f.order_id = g.order_id => f = g

\* C1: two start_execution calls in sequence on the same APPROVED plan
\* answer with the same Execution identifier both times, and after the second
\* call exactly one EXECUTE Run and one set of Orders and Fills exist for
\* the plan.
C1_Original ==
    \A pl \in PlanIds :
        Len(returned[pl]) >= 2 =>
            /\ returned[pl][1].code = "OK"
            /\ returned[pl][2] = returned[pl][1]
            /\ Cardinality(ExecuteRunsOf(pl)) = 1
            /\ OneOrderSet(pl)

\* C2: in every reachable state, under any interleaving of start_execution
\* calls, no plan has more than one Execution; a second insert for the plan
\* is rejected and leaves the first Execution in place.
C2_OneExecutionPerPlan ==
    /\ \A e, f \in 1 .. Len(executions) :
          executions[e].plan_id = executions[f].plan_id => e = f
    /\ \A p \in Procs :
          se[p].result.code = "INTEGRITY_ERROR" =>
              \E e \in 1 .. Len(executions) : executions[e].plan_id = se[p].plan

\* C2 witness: two calls passed the existence check for the same plan, one
\* inserted its Execution, the insert of the other was rejected
C2_Witness ==
    \E p, q \in Procs :
        /\ p # q
        /\ se[p].pc = "idle" /\ se[p].result.code = "INTEGRITY_ERROR"
        /\ se[q].plan = se[p].plan
        /\ se[q].execution # NoId \/ se[q].result.code = "OK"
        /\ Len(executions) = 1

\* C3: a start_execution call that passed the existence check and then loses
\* the insert to a concurrent call answers with the winner's Execution: it
\* neither fails nor runs the pipeline.
C3_Original ==
    [][\A p \in Procs :
          (/\ se[p].pc = "create"
           /\ se'[p] # se[p]
           /\ \E e \in 1 .. Len(executions) : executions[e].plan_id = se[p].plan)
          => /\ se'[p].pc = "idle"
             /\ se'[p].result.code = "OK"
             /\ executions[se'[p].result.id].plan_id = se[p].plan
             /\ UNCHANGED <<executions, runs, orders, fills>>]_vars

\* C4: once an Execution exists for a plan, a start_execution call for the
\* plan answers with that Execution as it is, whatever its status, and does
\* no pipeline work.
C4_Original ==
    [][\A p \in Procs :
          (/\ se[p].pc = "exists"
           /\ se'[p] # se[p]
           /\ \E e \in 1 .. Len(executions) : executions[e].plan_id = se[p].plan)
          => /\ se'[p].pc = "idle"
             /\ se'[p].result.code = "OK"
             /\ executions[se'[p].result.id].plan_id = se[p].plan
             /\ UNCHANGED <<executions, runs, orders, fills>>]_vars

\* C5: the status of a plan changes only from PROPOSED, and only to APPROVED,
\* REJECTED or EXPIRED; a plan that left PROPOSED keeps its status.
C5_Original ==
    [][\A pl \in 1 .. Len(plans) :
          plans'[pl].status # plans[pl].status =>
              /\ plans[pl].status = "PROPOSED"
              /\ plans'[pl].status \in {"APPROVED", "REJECTED", "EXPIRED"}]_vars

C7_Original ==
    [][(control.present /\ control.kill_switch) =>
          /\ Len(plans') = Len(plans)
          /\ UNCHANGED <<executions, runs, orders, fills>>
          /\ \A p \in Procs :
                calls' # calls /\ se'[p] # se[p]
                    => se'[p].result = Failed("KILL_SWITCH_ON")]_vars


\* C12: whenever a start_execution call that created or picked up an
\* Execution has returned or raised, that Execution is in a terminal status,
\* a failed one with its error recorded; none is left PENDING or RUNNING.
C12_Original ==
    Quiet =>
        \A e \in 1 .. Len(executions) :
            /\ executions[e].status \in {"DONE", "FAILED", "CANCELED"}
            /\ executions[e].status = "FAILED" => executions[e].error # "NONE"

\* C13: a start_execution call admitted for an APPROVED plan with items that
\* finds no PortfolioSnapshot ends its Execution FAILED with a descriptive
\* error and ended_at set, ends its EXECUTE Run FAILED with the same error,
\* persists no Order and no Fill, and answers the caller with an error.
C13_NoSnapshotFails ==
    [][\A p \in Procs :
          (se[p].pc = "snapshot" /\ se'[p] # se[p] /\ snapshots = {}) =>
              /\ executions'[se[p].execution].status = "FAILED"
              /\ executions'[se[p].execution].error = "No portfolio snapshot found"
              /\ executions'[se[p].execution].ended_at = now
              /\ runs'[se[p].run].kind = "EXECUTE"
              /\ runs'[se[p].run].status = "FAILED"
              /\ runs'[se[p].run].error = executions'[se[p].execution].error
              /\ \A o \in 1 .. Len(orders') : orders'[o].plan_id # se[p].plan
              /\ fills' = {}
              /\ se'[p].pc = "idle"
              /\ se'[p].result = Failed("NO_SNAPSHOT")]_vars

\* C13 witness: a call on the seeded plan (items, no snapshot) was answered
\* with the error; its Execution and its Run are FAILED, no order exists
C13_Witness ==
    /\ se["w1"].pc = "idle" /\ se["w1"].result.code = "NO_SNAPSHOT"
    /\ plans[se["w1"].plan].status = "APPROVED"
    /\ plans[se["w1"].plan].items # <<>>
    /\ snapshots = {}
    /\ \E e \in 1 .. Len(executions) :
          executions[e].plan_id = se["w1"].plan /\ executions[e].status = "FAILED"
    /\ \E r \in 1 .. Len(runs) : runs[r].kind = "EXECUTE" /\ runs[r].status = "FAILED"
    /\ orders = <<>> /\ fills = {}

RECURSIVE CountCopies(_, _)
CountCopies(events, elems) ==
    IF elems = {} THEN 0
    ELSE LET ev == CHOOSE x \in elems : TRUE
         IN CopiesIn(ev, events) + CountCopies(events, elems \ {ev})
AuditCount(events, ref_type, ref_id) ==
    CountCopies(events, {ev \in BagToSet(events) :
                            ev.ref_type = ref_type /\ ev.ref_id = ref_id})

\* the transitions an Execution in the given status has gone through at least
ExecutionTransitions(status) ==
    IF status = "PENDING" THEN 0 ELSE IF status = "RUNNING" THEN 1 ELSE 2

\* C15: every transition of the Plan/Execution lifecycle appends exactly one
\* audit event that references the plan or the execution: the creation, the
\* approval, the rejection and the expiry of a plan (by the endpoint or by
\* the plan_expirer job) by the time the status is committed, and the begin,
\* the completion and the failure of an Execution by the time the call has
\* answered.
C15_Original ==
    /\ [][\A pl \in 1 .. Len(plans') :
            (pl > Len(plans) \/ plans'[pl].status # plans[pl].status)
                => AuditCount(audit', "plan", pl) = AuditCount(audit, "plan", pl) + 1]_vars
    /\ [](Quiet => \A e \in 1 .. Len(executions) :
            AuditCount(audit, "execution", e)
                >= ExecutionTransitions(executions[e].status))


\* the elements of a sequence
Range(s) == {s[i] : i \in 1 .. Len(s)}

\* C16: a failed aggregate constraint check never blocks plan creation: the
\* plan generate_plan persists is PROPOSED, its summary records passed=false
\* with the violation messages (more items than max_positions gives a
\* positions violation citing both numbers, a target weight above
\* max_weight_per_name a violation citing the symbol), and the checks field
\* of every item of the plan holds those violations.
C16_FailedCheckStillProposed ==
    [][Len(plans') > Len(plans) =>
          LET plan == plans'[Len(plans')]
              checks == plan.constraint_checks
              n == Len(plan.items)
              heavy == {i \in 1 .. n : plan.items[i].target_weight
                                          > ConstraintsConfig.max_weight_per_name}
          IN /\ plan.status = "PROPOSED"
             /\ n > ConstraintsConfig.max_positions =>
                   [name |-> "positions", symbols |-> <<>>,
                    values |-> <<n, ConstraintsConfig.max_positions>>]
                       \in Range(checks.errors)
             /\ heavy # {} =>
                   \E v \in Range(checks.errors) :
                       /\ v.name = "weight_per_name"
                       /\ Range(v.symbols) = {plan.items[i].symbol : i \in heavy}
             /\ checks.passed <=> checks.errors = <<>>
             /\ \A i \in 1 .. n :
                   plan.items[i].checks =
                       IF checks.passed THEN NoChecks ELSE checks.errors]_vars

\* C16 witness: a PROPOSED plan of two items generated under max_positions 1
\* records passed=false and the positions violation citing 2 and 1, and each
\* of its items carries the violations
C16_Witness ==
    \E pl \in 1 .. Len(plans) :
        /\ plans[pl].status = "PROPOSED"
        /\ Len(plans[pl].items) = 2
        /\ ~plans[pl].constraint_checks.passed
        /\ \E v \in Range(plans[pl].constraint_checks.errors) :
              v.name = "positions" /\ v.values = <<2, 1>>
        /\ \A i \in 1 .. 2 :
              plans[pl].items[i].checks = plans[pl].constraint_checks.errors



\* the fills of order row o
FillsOf(o) == {f \in fills : f.order_id = o}

\* C18: in paper-mode execution every persisted order that is not SKIPPED
\* ends FILLED with exactly one Fill, whose quantity is the order quantity
\* and whose price is the order's limit price (between the commit of the
\* order and the commit of its fill the order is CREATED without a Fill);
\* every SKIPPED order has no Fill; so the fill quantities of an order never
\* sum to more than its quantity.
C18_OneFullFill ==
    \A o \in 1 .. Len(orders) :
        /\ orders[o].status \in {"SKIPPED", "CREATED", "FILLED"}
        /\ orders[o].status = "SKIPPED" => FillsOf(o) = {}
        /\ orders[o].status = "CREATED" =>
              /\ FillsOf(o) = {}
              /\ \E p \in Procs : se[p].pc = "fill" /\ se[p].order = o
        /\ orders[o].status = "FILLED" =>
              /\ Cardinality(FillsOf(o)) = 1
              /\ \A f \in FillsOf(o) :
                    /\ f.filled_qty = orders[o].qty
                    /\ f.filled_price = orders[o].limit_price
        /\ \A f \in FillsOf(o) : f.filled_qty <= orders[o].qty

\* C18 witness: a call has answered; its SELL order is FILLED with its one
\* full fill and its BUY order is SKIPPED without a fill
C18_Witness ==
    /\ Quiet
    /\ \E o, k \in 1 .. Len(orders) :
          /\ orders[o].status = "FILLED" /\ orders[o].qty > 0
          /\ \E f \in fills : f.order_id = o /\ f.filled_qty = orders[o].qty
          /\ orders[k].status = "SKIPPED" /\ orders[k].side = "BUY"
          /\ orders[k].execution_id = orders[o].execution_id

\* C19: a plan becomes EXPIRED only from PROPOSED and only when the current
\* time is past its expires_at, whether the expire_plan endpoint or the
\* plan_expirer job expires it.
C19_Original ==
    [][\A pl \in 1 .. Len(plans) :
          (plans'[pl].status = "EXPIRED" /\ plans[pl].status # "EXPIRED") =>
              /\ plans[pl].status = "PROPOSED"
              /\ now > plans[pl].expires_at]_vars

CompletedEvents(e) ==
    CopiesIn(AuditEvent("execution_completed", "system", "execution", e), audit)

\* the completion notifications of execution e
CompletionAlerts(e) ==
    CountCopies(alerts, {a \in BagToSet(alerts) :
                            a.title = "execution_completed" /\ a.ref_id = e})

\* C29 as stated: an Execution never has more than one execution_completed
\* audit event nor more than one completion notification, however many
\* start_execution calls are made for its plan, and a DONE Execution whose
\* calls have all answered has exactly one of each
C29_Original ==
    \A e \in 1 .. Len(executions) :
        /\ CompletedEvents(e) <= 1
        /\ CompletionAlerts(e) <= 1
        /\ (executions[e].status = "DONE"
              /\ \A p \in Procs : se[p].pc = "idle") =>
               CompletedEvents(e) = 1 /\ CompletionAlerts(e) = 1

(***************************************************************************)
(* Properties of select_universe (SpecSU)                                  *)
(***************************************************************************)
\* the items of s that belong to market
OfMarket(s, market) ==
    LET InMarket(item) == item.market = market
    IN SelectSeq(s, InMarket)

\* the sum of the target weights of the items of s
RECURSIVE SumTargetWeights(_)
SumTargetWeights(s) ==
    IF s = <<>> THEN Frac(0, 1)
    ELSE FracAdd(Head(s).target_weight, SumTargetWeights(Tail(s)))

\* the selected names of market in what select_universe returned: none if
\* none was selected; otherwise their target weights are equal and sum to split
MarketAllocated(market, picked, split) ==
    LET items == OfMarket(su.selected, market)
    IN /\ Len(items) = Len(picked)
       /\ items # <<>> =>
            /\ \A i, j \in 1 .. Len(items) :
                   FracEq(items[i].target_weight, items[j].target_weight)
            /\ FracEq(SumTargetWeights(items), Frac(split, 1))

PricedSymbols(universe) ==
    LET Priced(symbol) == symbol \in DOMAIN su.prices
    IN SelectSeq(universe, Priced)

\* the momentum score of a priced symbol
ScoreOf(symbol) ==
    calculate_momentum_score(su.prices[symbol].current, su.prices[symbol].lookback)

\* picked holds the top entries of universe: only priced symbols, as many as
\* top allows, each at the place given by the number of priced entries that
\* score strictly higher or score the same and come earlier in the universe;
\* so no priced entry left out scores strictly higher than one picked
TopOfMarket(universe, top, picked) ==
    LET priced == PricedSymbols(universe)
        n == Len(priced)
        Ahead(j, i) ==
            \/ FracLess(ScoreOf(priced[i]), ScoreOf(priced[j]))
            \/ FracEq(ScoreOf(priced[i]), ScoreOf(priced[j])) /\ j < i
        rank(i) == Cardinality({j \in 1 .. n : Ahead(j, i)}) + 1
    IN /\ Len(picked) = IF top < n THEN top ELSE n
       /\ \A k \in 1 .. Len(picked) : picked[k].symbol \in DOMAIN su.prices
       /\ \A i \in 1 .. n :
             IF rank(i) <= top
             THEN /\ picked[rank(i)].symbol = priced[i]
                  /\ FracEq(picked[rank(i)].score, ScoreOf(priced[i]))
             ELSE \A k \in 1 .. Len(picked) :
                     ~FracLess(picked[k].score, ScoreOf(priced[i]))

\* C34: select_universe selects, for each market on its own, the kr_top_m
\* (us_top_n) best momentum scores among the symbols of that market's
\* universe that have price data: a symbol without price data is left out, no
\* priced symbol left out scores strictly higher than a selected one of its
\* market, and symbols of equal score are taken in universe order
C34_TopScoresPerMarket ==
    su.pc \in {"allocate", "done"} =>
        /\ TopOfMarket(su.universe_kr, su.kr_top_m, su.selected_kr)
        /\ TopOfMarket(su.universe_us, su.us_top_n, su.selected_us)
        /\ su.pc = "done" =>
              /\ Len(su.selected) = Len(su.selected_kr) + Len(su.selected_us)
              /\ \A k \in 1 .. Len(su.selected) :
                    LET row == IF k <= Len(su.selected_kr) THEN su.selected_kr[k]
                               ELSE su.selected_us[k - Len(su.selected_kr)]
                    IN /\ su.selected[k].symbol = row.symbol
                       /\ su.selected[k].market =
                            IF k <= Len(su.selected_kr) THEN "KR" ELSE "US"

\* select_universe has returned: of the KR universe the second symbol, which
\* scores strictly higher than the first, was selected alone; of the US
\* universe (C, B, C), C and B score the same and the one asked for is C
C34_Witness ==
    /\ su.pc = "done"
    /\ su.universe_kr = <<"A", "B">> /\ su.kr_top_m = 1
    /\ {"A", "B", "C"} \subseteq DOMAIN su.prices
    /\ FracLess(ScoreOf("A"), ScoreOf("B"))
    /\ Len(su.selected_kr) = 1 /\ su.selected_kr[1].symbol = "B"
    /\ su.universe_us = <<"C", "B", "C">> /\ su.us_top_n = 1
    /\ FracEq(ScoreOf("B"), ScoreOf("C"))
    /\ Len(su.selected_us) = 1 /\ su.selected_us[1].symbol = "C"

(***************************************************************************)
(* Properties of slack.send and of the handlers that call it (SpecSlack)   *)
(***************************************************************************)
\* what the step's call of send asked for and did is ok: it did not raise; with
\* no webhook for its channel nothing was posted and it returned False; a POST
\* that failed made it return False
SendContained(a) ==
    /\ a.returned \in {"True", "False"}
    /\ NotConfigured(WebhookUrl(broker.environ, a.channel)) =>
          a.posted = "none" /\ a.returned = "False"
    /\ a.posted = "error" => a.returned = "False"
    /\ a.returned = "True" => a.posted = "ok"

\* the step that made the call a of send completed its operation
OperationCompleted(a) ==
    /\ a.title = "plan_created" =>
          /\ Len(plans') = Len(plans) + 1 /\ a.ref_id = Len(plans')
          /\ plans'[a.ref_id].status = "PROPOSED"
          /\ runs'[plans'[a.ref_id].run_id].status = "DONE"
          /\ audit' = audit (+) SetToBag(
                {AuditEvent("plan_created", "system", "plan", a.ref_id)})
    /\ a.title = "plan_approved" =>
          /\ plans'[a.ref_id].status = "APPROVED"
          /\ audit' = audit (+) SetToBag(
                {AuditEvent("plan_approved", "approver", "plan", a.ref_id)})
    /\ a.title = "execution_completed" =>
          /\ executions'[a.ref_id].status = "DONE"
          /\ returned'[executions'[a.ref_id].plan_id] =
                Append(returned[executions'[a.ref_id].plan_id], Answer(a.ref_id))
          /\ \E p \in Procs : se[p].pc = "notify" /\ se'[p].result = Answer(a.ref_id)

\* C22: a call of send never raises: it returns False and posts nothing when
\* the channel has no webhook, returns False when the delivery fails, and
\* whatever it did, the generate_plan, approve_plan or start_execution that
\* called it completes with the same records and the same answer
C22_NotificationNeverFailsCaller ==
    [][\A a \in BagToSet(alerts' (-) alerts) :
          SendContained(a) /\ OperationCompleted(a)]_vars

\* a start_execution has answered 200 for a DONE execution although the POST of
\* its notification failed, and a direct send to a channel without webhook
\* returned False
C22_Witness ==
    /\ \E a \in BagToSet(alerts) :
          /\ a.title = "execution_completed" /\ a.posted = "error"
          /\ a.returned = "False"
          /\ executions[a.ref_id].status = "DONE"
          /\ returned[executions[a.ref_id].plan_id] = <<Answer(a.ref_id)>>
    /\ \E a \in BagToSet(alerts) :
          a.title = "Test" /\ a.posted = "none" /\ a.returned = "False"
    /\ \E a \in BagToSet(alerts) :
          a.title = "plan_approved" /\ a.posted = "ok" /\ a.returned = "True"

(***************************************************************************)
(* Properties of the not-found answers (SpecGuard)                         *)
(***************************************************************************)
\* a plan handler answers in the step a request that names a config version
\* that does not exist, finds no snapshot, or names a plan that does not exist
PlanRequestNotFound ==
    /\ http' # http
    /\ \/ /\ http'.last.op = "generate_plan"
          /\ http'.last.config \notin ConfigVersions \/ snapshots = {}
       \/ /\ http'.last.op \in {"approve_plan", "reject_plan", "expire_plan"}
          /\ http'.last.plan_id > Len(plans)

\* the start_execution call of worker p, for a plan that does not exist, takes
\* the step
UnknownPlanCall(p) == se'[p] # se[p] /\ se'[p].plan > Len(plans)

\* the step leaves the Run, Plan, PlanItem, Execution, Order, Fill and
\* AuditEvent records as they are
RecordsUnchanged == UNCHANGED <<runs, plans, executions, orders, fills, audit>>

\* C23 as stated: generate_plan with a missing config version or without a
\* snapshot, approve_plan, reject_plan and expire_plan with an unknown plan id
\* and start_execution with an unknown plan id each answer not-found and leave
\* the records unchanged
C23_Original ==
    [][/\ PlanRequestNotFound => http'.last.status = "404" /\ RecordsUnchanged
       /\ \A p \in Procs :
            UnknownPlanCall(p) =>
                /\ RecordsUnchanged
                /\ se'[p].pc = "idle" => se'[p].result = Failed("PLAN_NOT_FOUND")]_vars

\* C23: the same, except that start_execution with an unknown plan id answers
\* KILL_SWITCH_ON when the kill switch is on (the kill switch is checked
\* before the plan is looked up) and not-found otherwise
C23_NotFoundBeforePersistence ==
    [][/\ PlanRequestNotFound => http'.last.status = "404" /\ RecordsUnchanged
       /\ \A p \in Procs :
            UnknownPlanCall(p) =>
                /\ RecordsUnchanged
                /\ se'[p].pc = "idle" =>
                      se'[p].result = IF KillSwitchBlocks
                                      THEN Failed("KILL_SWITCH_ON")
                                      ELSE Failed("PLAN_NOT_FOUND")]_vars

\* generate_plan has answered 404 for want of a snapshot after a
\* start_execution for a plan that does not exist answered PLAN_NOT_FOUND, and
\* no record exists
C23_Witness ==
    /\ http.last.op = "generate_plan" /\ http.last.config \in ConfigVersions
    /\ http.last.status = "404"
    /\ se["w1"].pc = "idle" /\ se["w1"].result = Failed("PLAN_NOT_FOUND")
    /\ snapshots = {}
    /\ runs = <<>> /\ plans = <<>> /\ executions = <<>> /\ orders = <<>>
    /\ fills = {} /\ audit = EmptyBag

(***************************************************************************)
(* Properties of the plan records (SpecSeq)                                *)
(***************************************************************************)
\* C24: no step changes a plan that exists in anything but its status: its
\* items (symbol, market, weights, checks), its summary, its run and its
\* expiry stay as generate_plan wrote them, whatever approve_plan,
\* reject_plan, expire_plan, the plan_expirer job and start_execution do
C24_ItemsNeverMutated ==
    [][\A pl \in 1 .. Len(plans) :
          /\ pl <= Len(plans')
          /\ plans'[pl].items = plans[pl].items
          /\ plans'[pl].constraint_checks = plans[pl].constraint_checks
          /\ plans'[pl].run_id = plans[pl].run_id
          /\ plans'[pl].expires_at = plans[pl].expires_at]_vars

\* a generated plan with items that failed their checks was approved, executed
\* to DONE and then expired
C24_Witness ==
    \E pl \in 1 .. Len(plans) :
        /\ plans[pl].status = "EXPIRED"
        /\ plans[pl].items # <<>>
        /\ ~plans[pl].constraint_checks.passed
        /\ BagIn(AuditEvent("plan_approved", "approver", "plan", pl), audit)
        /\ \E e \in 1 .. Len(executions) :
              executions[e].plan_id = pl /\ executions[e].status = "DONE"

(***************************************************************************)
(* Properties of the snapshot the handlers read (SpecLatest)               *)
(***************************************************************************)
\* no snapshot of the store is more recent than s
GreatestAsof(s) == s \in snapshots /\ \A t \in snapshots : t.asof <= s.asof

\* the current weights generate_plan derives from snapshot s for the items
ItemsWeighedFrom(items, s) ==
    \A i \in 1 .. Len(items) :
        items[i].current_weight =
            IF items[i].symbol \in DOMAIN s.positions /\ s.nav > 0
            THEN (s.positions[items[i].symbol] * StubPrice) \div s.nav
            ELSE 0

\* the ledger and the order dicts start_execution derives from snapshot s
CallSizedFrom(call, items, s) ==
    /\ call.cash_remaining = s.cash
    /\ call.positions = s.positions
    /\ call.order_dicts = build_orders(QuotedItems(items), s.cash, s.nav)

\* C31: generate_plan weighs the plan items against, and start_execution
\* takes its cash, NAV and positions from, the snapshot with the greatest
\* asof in the store at the time of the call; a snapshot added after the plan
\* was generated, if it is the most recent, is the one the execution uses
C31_LatestSnapshotUsed ==
    [][ /\ Len(plans') > Len(plans) =>
            \E s \in snapshots :
                GreatestAsof(s) /\ ItemsWeighedFrom(plans'[Len(plans')].items, s)
        /\ \A p \in Procs :
            se[p].pc = "snapshot" /\ se'[p].pc = "order" =>
                \E s \in snapshots :
                    /\ GreatestAsof(s)
                    /\ CallSizedFrom(se'[p], plans[se[p].plan].items, s)
      ]_vars

\* a plan weighed against an older snapshot is executed after a more recent
\* one with another ledger was added: the call holds the newer ledger, and
\* its order dicts differ from those the older snapshot would have given
C31_Witness ==
    \E old \in snapshots, new \in snapshots :
        /\ old.asof < new.asof
        /\ Len(plans) = 1
        /\ plans[1].items # <<>>
        /\ ItemsWeighedFrom(plans[1].items, old)
        /\ ~ItemsWeighedFrom(plans[1].items, new)
        /\ se["w1"].pc = "order" /\ se["w1"].idx = 1
        /\ CallSizedFrom(se["w1"], plans[1].items, new)
        /\ se["w1"].order_dicts #
              build_orders(QuotedItems(plans[1].items), old.cash, old.nav)

(***************************************************************************)
(* Properties of the controls table (SpecControl)                          *)
(***************************************************************************)
\* C32: a check_kill_switch that finds no Control record creates one record
\* with kill_switch off and passes; no access removes the record, every
\* access that has answered leaves a record behind, the table never holds
\* more than one record, and a check_kill_switch that finds the record is
\* blocked (KILL_SWITCH_ON) exactly when its kill_switch is true
C32_Original ==
    [][ /\ Len(ctl'.rows) <= 1
        /\ Len(ctl.rows) <= Len(ctl'.rows)
        /\ \A p \in Procs :
            LET before == ctl.call[p]
                after == ctl'.call[p]
            IN /\ before # after /\ after.pc = "idle" => ctl'.rows # <<>>
               /\ ( /\ before # after
                    /\ after.op = "check_kill_switch"
                    /\ after.pc = "idle" )
                  => IF after.found
                     THEN after.result =
                            IF ctl.rows[1].kill_switch THEN "KILL_SWITCH_ON"
                            ELSE "passed"
                     ELSE /\ after.result = "passed"
                          /\ ctl'.rows = Append(ctl.rows,
                                                [id |-> 1, kill_switch |-> FALSE])
      ]_vars

(***************************************************************************)
(* Properties of ConstraintChecker.check_all (SpecCC)                      *)
(***************************************************************************)
\* the checks that the items handed to check_all do not satisfy
FailedChecks(items, config) ==
    { name \in Range(Checks) :
        \/ name = "positions" /\ Len(items) > config.max_positions
        \/ /\ name = "weight_per_name"
           /\ \E i \in 1 .. Len(items) :
                 items[i].target_weight > config.max_weight_per_name
        \/ name = "kr_us_split" /\ check_kr_us_split(items, config) # <<>>
        \/ /\ name = "data_quality"
           /\ \E i \in 1 .. Len(items) : items[i].current_price <= 0 }

\* C33: check_all calls the four checks positions, weight_per_name,
\* kr_us_split and data_quality, each once and in that order, whatever the
\* earlier ones returned; its errors hold one message, under the check's name,
\* for each check that failed and none for a check that passed; passed is
\* true exactly when no check failed; the items are as they were handed in
C33_CheckAllRunsEveryCheck ==
    cc.pc = "done" =>
        LET failed == FailedChecks(cc.given, cc.config)
            errors == cc.result.errors
        IN /\ cc.ran = Checks
           /\ \A name \in Range(Checks) :
                 Cardinality({k \in 1 .. Len(errors) : errors[k].name = name})
                    = IF name \in failed THEN 1 ELSE 0
           /\ \A k \in 1 .. Len(errors) : errors[k].name \in Range(Checks)
           /\ \A j \in 1 .. Len(errors), k \in 1 .. Len(errors) :
                 j < k => \E a \in 1 .. Len(Checks), b \in 1 .. Len(Checks) :
                            a < b /\ Checks[a] = errors[j].name
                                  /\ Checks[b] = errors[k].name
           /\ errors = check_all(cc.given, cc.config)
           /\ cc.result.passed <=> failed = {}
           /\ cc.items = cc.given

\* check_all has returned for items that fail the first and the last check
\* and satisfy the second: both failures are reported
C33_Witness ==
    /\ cc.pc = "done"
    /\ cc.given # <<>>
    /\ ~cc.result.passed
    /\ Len(cc.result.errors) = 2
    /\ cc.result.errors[1].name = "positions"
    /\ cc.result.errors[2].name = "data_quality"

(***************************************************************************)
(* Properties of the snapshots under start_execution (SpecSeq)             *)
(***************************************************************************)
\* the cost of the BUY orders of execution e that were filled
RECURSIVE BuyCostOf(_, _)
BuyCostOf(e, k) ==
    IF k = 0 THEN 0
    ELSE BuyCostOf(e, k - 1)
            + IF /\ orders[k].execution_id = e /\ orders[k].side = "BUY"
                 /\ orders[k].status = "FILLED"
              THEN orders[k].qty * orders[k].limit_price ELSE 0

\* C36: no step of a start_execution call adds, removes or changes a portfolio
\* snapshot, so every snapshot of the store is as it was posted whatever was
\* executed since, and a call that takes the snapshot starts its running cash
\* and positions from the posted values of the most recent one
C36_SnapshotsUntouched ==
    [][ /\ (\E p \in Procs : se'[p] # se[p]) => snapshots' = snapshots
        /\ snapshots' \subseteq SnapshotRequests
        /\ \A p \in Procs :
              se[p].pc = "snapshot" /\ se'[p].pc = "order" =>
                  \E s \in SnapshotRequests :
                      /\ s \in snapshots
                      /\ \A t \in snapshots : t.asof <= s.asof
                      /\ se'[p].cash_remaining = s.cash
                      /\ se'[p].positions = s.positions
      ]_vars

\* two plans were executed one after the other against the one snapshot: each
\* execution filled BUY orders, together for more than the snapshot's cash,
\* and the snapshot is as it was posted
C36_Witness ==
    /\ Len(executions) = 2
    /\ executions[1].plan_id # executions[2].plan_id
    /\ executions[1].status = "DONE" /\ executions[2].status = "DONE"
    /\ Cardinality(snapshots) = 1
    /\ snapshots \subseteq SnapshotRequests
    /\ BuyCostOf(1, Len(orders)) > 0
    /\ BuyCostOf(2, Len(orders)) > 0
    /\ BuyCostOf(1, Len(orders)) + BuyCostOf(2, Len(orders)) > LatestSnapshot.cash

(***************************************************************************)
(* Properties of the plan_expirer job racing the handlers (Spec)           *)
(***************************************************************************)
\* C37: when the plan_expirer job has read a plan as PROPOSED and past its
\* expiry and approve_plan commits and reports the approval before the job
\* commits, the job's commit does not overwrite the plan: a plan that is
\* APPROVED, with its approval recorded, when the job commits is still
\* APPROVED afterwards
C37_Original ==
    [][ (job.running /\ ~job'.running) =>
            \A pl \in 1 .. Len(plans) :
                ( /\ plans[pl].status = "APPROVED"
                  /\ BagIn(AuditEvent("plan_approved", "approver", "plan", pl),
                           audit) )
                => plans'[pl].status = "APPROVED"
      ]_vars

(***************************************************************************)
(* Properties of the plans that have an Execution (SpecSeq)                *)
(***************************************************************************)
\* C38: every plan that has an Execution, and so every plan that has Orders,
\* has status APPROVED: once execution was started for a plan, no reject_plan,
\* expire_plan or plan_expirer step moves the plan out of APPROVED
C38_Original ==
    /\ \A e \in 1 .. Len(executions) :
          plans[executions[e].plan_id].status = "APPROVED"
    /\ \A o \in 1 .. Len(orders) :
          plans[orders[o].plan_id].status = "APPROVED"

(***************************************************************************)
(* Properties of the kill switch during start_execution (SpecKill)         *)
(***************************************************************************)
\* the Control record reads kill_switch on
SwitchOn == control.present /\ control.kill_switch

\* the orders of execution e
OrdersOfExecution(e) == {o \in 1 .. Len(orders) : orders[o].execution_id = e}

\* the call of worker p has set its execution DONE after persisting every
\* order dict it built, each SKIPPED or FILLED
CallDone(p) ==
    /\ se[p].pc = "notify"
    /\ executions[se[p].execution].status = "DONE"
    /\ Cardinality(OrdersOfExecution(se[p].execution)) >= Len(se[p].order_dicts)
    /\ \A o \in OrdersOfExecution(se[p].execution) :
          orders[o].status \in {"SKIPPED", "FILLED"}

\* C39: start_execution consults the kill switch once, when the call begins:
\* a call that begins while the switch is on answers KILL_SWITCH_ON at once
\* and writes no Execution, Run, Order or Fill; a call that has passed the
\* guard is never answered KILL_SWITCH_ON, and when the switch is turned on
\* while it is in its order loop it still persists and fills its remaining
\* orders and sets the execution DONE
C39_KillSwitchConsultedOnce ==
    /\ [][ \A p \in Procs :
            /\ (se[p].pc = "idle" /\ se'[p] # se[p] /\ SwitchOn) =>
                  /\ se'[p].pc = "idle"
                  /\ se'[p].result.code = "KILL_SWITCH_ON"
                  /\ UNCHANGED <<executions, runs, orders, fills, audit>>
            /\ (se[p].pc = "idle" /\ se'[p] # se[p] /\ ~SwitchOn) =>
                  se'[p].pc = "plan_approved"
            /\ (se[p].pc # "idle" /\ se'[p] # se[p]) =>
                  se'[p].result.code # "KILL_SWITCH_ON"
         ]_vars
    /\ \A p \in {"w1"} :
          (se[p].pc \in {"order", "fill"} /\ SwitchOn) ~> CallDone(p)

\* the switch is on while a call that passed the guard has persisted and
\* filled its first order and has another one to go
C39_Witness ==
    /\ SwitchOn
    /\ se["w1"].pc = "order"
    /\ se["w1"].idx = 2
    /\ se["w1"].idx <= Len(se["w1"].order_dicts)
    /\ Len(orders) = 1 /\ orders[1].status = "FILLED"
    /\ executions[se["w1"].execution].status = "RUNNING"

(***************************************************************************)
(* Properties of the brokers (SpecBroker)                                  *)
(***************************************************************************)
\* C17: while ENABLE_LIVE_TRADING is not "true" (in any case), place_order on
\* the adapter get_broker selects, KISDirectAdapter or KISMCPAdapter, raises
\* LiveTradingDisabledError and returns no acknowledgement; when it is
\* "true", place_order returns an acknowledgement.
C17_Original ==
    \A i \in 1 .. Len(broker.placed) :
        LET call == broker.placed[i]
        IN IF call.enable_live_trading \in {"true", "TRUE"}
           THEN call.outcome.raised = "NONE" /\ call.outcome.order_id # "NONE"
           ELSE /\ call.outcome.raised = "LiveTradingDisabledError"
                /\ call.outcome.order_id = "NONE"

====
